---- MODULE Spec2Model ----
(***************************************************************************)
(* State-machine model of nurandom's seed distribution:                    *)
(*   rndm::SeedMaster<SEED>          (Providers/SeedMaster.h)              *)
(*   rndm::NuRandomService           (NuRandomService.h / .cc)             *)
(*   rndm::details::PerEventPolicy   (Providers/PerEventPolicy.h)          *)
(* The standard policies, ArtState and EngineId are not part of the        *)
(* sources at hand and are modelled from the specification.                *)
(***************************************************************************)
EXTENDS Integers, Sequences, FiniteSets, TLC

----------------------------------------------------------------------------
(* Bounds of the model *)

MaxEngines == 2
MaxEvents == 2
MaxPolicyCalls == 3
SeedBits == 8

----------------------------------------------------------------------------
(* Seeds, engine IDs, parameters *)

InvalidSeed == 0

\* "no value": an empty std::optional<seed_t>, a key missing from a std::map
NoSeed == 0 - 1

SeedModulus == 2 ^ SeedBits

isSeedValid(seed) == seed # InvalidSeed

Modules == {"M", "N"}

\* the engines of the job: module M has two, module N one, and there is one
\* global engine
Instances(moduleLabel) ==
  CASE moduleLabel = "M" -> {"", "x"}
    [] moduleLabel = "N" -> {""}
    [] OTHER -> {"x"}

\* EngineId: moduleLabel is empty only for a global engine
EngineId(moduleLabel, instanceName) ==
  [moduleLabel |-> moduleLabel, instanceName |-> instanceName]

GlobalEngineId(instanceName) == EngineId("", instanceName)

isGlobal(id) == id.moduleLabel = ""

Ids == { EngineId(m, i) : m \in Modules \cup {""}, i \in {"", "x"} }

\* iteration order of std::map<EngineId, ...> (ordering by the tuple)
IdOrder ==
  << EngineId("", ""), EngineId("", "x"), EngineId("M", ""),
     EngineId("M", "x"), EngineId("N", ""), EngineId("N", "x") >>

\* std::optional<seed_t> with the values a user writes as a seed override
OptSeeds(values) == {NoSeed} \cup values

\* rndm::SeedAtom = fhicl::OptionalAtom<seed_t>
SeedAtoms(values) ==
  {[present |-> FALSE, value |-> 0]}
    \cup {[present |-> TRUE, value |-> v] : v \in values}

\* fhicl::ParameterSet restricted to the seed parameters: key -> value,
\* NoSeed for a key that is not present
ParamNames == {"Seed", "MySeed"}
PSet(seed, mySeed) == [n \in ParamNames |-> IF n = "Seed" THEN seed ELSE mySeed]
EmptyPSet == PSet(NoSeed, NoSeed)

AllPSets ==
  { EmptyPSet, PSet(42, NoSeed), PSet(0, 7), PSet(NoSeed, 7), PSet(0, NoSeed) }
AllPNames == { <<"Seed", "MySeed">>, <<"MySeed", "Seed">>, << >> }

SmallPSets == { EmptyPSet, PSet(42, NoSeed) }
SmallPNames == { <<"Seed">> }

----------------------------------------------------------------------------
(* Policy configurations (services.NuRandomService) *)

PolicyConfig(policy, init, baseSeed, nJob, maxUniqueEngines, checkRange, offset) ==
  [policy |-> policy, init |-> init, baseSeed |-> baseSeed, nJob |-> nJob,
   maxUniqueEngines |-> maxUniqueEngines, checkRange |-> checkRange,
   offset |-> offset]

PolicyConfigs ==
  { PolicyConfig("autoIncrement",  "none",           100, 0,  0, FALSE, 0),
    PolicyConfig("linearMapping",  "none",           0,   21, 2, TRUE,  0),
    PolicyConfig("preDefinedSeed", "none",           0,   0,  0, FALSE, 0),
    PolicyConfig("perEvent",       "none",           0,   0,  0, FALSE, 0),
    PolicyConfig("perEvent",       "autoIncrement",  100, 0,  0, FALSE, 0) }

\* preDefinedSeed table: stest-like configuration, two engines share a seed,
\* the global engines and N.x have no entry
PredefinedSeeds(id) ==
  CASE id = EngineId("M", "")  -> 5
    [] id = EngineId("M", "x") -> 5
    [] id = EngineId("N", "")  -> 9
    [] OTHER -> NoSeed

----------------------------------------------------------------------------
(* State *)

VARIABLES
  policy,           \* configuration the SeedMaster was constructed with
  engineData,       \* SeedMaster::engineData      (EngineId -> EngineInfo_t)
  configuredSeeds,  \* SeedMaster::configuredSeeds (EngineId -> seed)
  knownEventSeeds,  \* SeedMaster::knownEventSeeds (EngineId -> seed)
  currentSeeds,     \* SeedMaster::currentSeeds    (EngineId -> seed)
  nextOffset,       \* policy state: number of seeds the policy was asked for
  engineSeed,       \* seed held by the real engine behind each EngineId
  delivered,        \* seeder invocations of the last operation (id -> value)
  phase,            \* ArtState::state()
  curModule,        \* ArtState: module label of the current module ("" if none)
  curEvent,         \* ArtState: current event data
  fw,               \* where the framework is in the job
  constructed,      \* modules whose constructor has run
  nEvents,          \* events started so far
  lastCall,         \* the last operation and its outcome
  firstSeed,        \* history: what the first getSeed(id) returned
  declaration,      \* history: the call that created the record of an engine
  threads,          \* threads inside getSeed(moduleLabel, instanceName)
  before            \* history: what the last call or callback found

smVars ==
  << engineData, configuredSeeds, knownEventSeeds, currentSeeds, nextOffset,
     engineSeed, delivered >>
artVars == << phase, curModule, curEvent, fw, constructed, nEvents >>
histVars == << firstSeed, declaration >>
vars == << policy, smVars, artVars, lastCall, histVars, threads, before >>

\* EngineInfo_t; a missing map entry has present = FALSE
EngineInfo(seeder, autoseed) ==
  [present |-> TRUE, seeder |-> seeder, autoseed |-> autoseed]
NoEngine == [present |-> FALSE, seeder |-> FALSE, autoseed |-> TRUE]

NoDelivery == [id \in Ids |-> NoSeed]

\* a thread inside getSeed(moduleLabel, instanceName): where it is, the
\* engine it asks for, the seed it holds in a local variable, and the
\* outcome of its call when it is done
ThreadNames == {"t1", "t2"}
Thread(pc, id, path, seed, ret, err, site) ==
  [pc |-> pc, id |-> id, path |-> path, seed |-> seed, ret |-> ret,
   err |-> err, site |-> site]
IdleThread ==
  Thread("idle", EngineId("-", "-"), "", NoSeed, InvalidSeed, "none", "none")
\* no thread is in the call; base is the SeedMaster as it was when the
\* threads now in the call entered it
NoBase ==
  [ed |-> [id \in Ids |-> NoEngine], conf |-> [id \in Ids |-> NoSeed],
   known |-> [id \in Ids |-> NoSeed], cur |-> [id \in Ids |-> NoSeed],
   k |-> 0, eng |-> [id \in Ids |-> NoSeed], dlv |-> NoDelivery]
NoThreads == [base |-> NoBase, run |-> [t \in ThreadNames |-> IdleThread]]

\* the SeedMaster (and the engines it seeds) as one value, so that a handler
\* can thread it through the calls it makes
SM ==
  [ed |-> engineData, conf |-> configuredSeeds, known |-> knownEventSeeds,
   cur |-> currentSeeds, k |-> nextOffset, eng |-> engineSeed,
   dlv |-> NoDelivery]

\* the SeedMaster, the engines and the ArtState as a call by user code or a
\* callback of the service finds them
Before ==
  [engineData |-> engineData, configuredSeeds |-> configuredSeeds,
   knownEventSeeds |-> knownEventSeeds, currentSeeds |-> currentSeeds,
   nextOffset |-> nextOffset, engineSeed |-> engineSeed, phase |-> phase,
   curEvent |-> curEvent, fw |-> fw, declaration |-> declaration]

\* outcome of a call: the state it leaves, the returned value, the exception
\* thrown ("none" if it returned) and the place that threw it
Ret(sm, ret) == [sm |-> sm, ret |-> ret, err |-> "none", site |-> "none"]
Throw(sm, err, site) == [sm |-> sm, ret |-> InvalidSeed, err |-> err, site |-> site]

----------------------------------------------------------------------------
(* Policies *)

\* range-checked policies: the seed is first + k, k the number of seeds
\* requested so far
RangeError(cfg, k) == cfg.checkRange /\ k >= cfg.maxUniqueEngines

\* policies that count the seeds from one
StandardPolicySeed_fromOne(cfg, name, k, id) ==
  IF PredefinedSeeds(id) = NoSeed /\ name = "preDefinedSeed"
    THEN [seed |-> InvalidSeed, err |-> "Configuration", k |-> k]
    ELSE [seed |-> cfg.baseSeed + k + 1, err |-> "none", k |-> k + 1]

StandardPolicySeed(cfg, name, k, id) ==
  CASE name = "autoIncrement" ->
         IF RangeError(cfg, k)
           THEN [seed |-> InvalidSeed, err |-> "Configuration", k |-> k + 1]
           ELSE [seed |-> cfg.baseSeed + k, err |-> "none", k |-> k + 1]
    [] name = "linearMapping" ->
         IF RangeError(cfg, k)
           THEN [seed |-> InvalidSeed, err |-> "Configuration", k |-> k + 1]
           ELSE [seed |-> cfg.maxUniqueEngines * cfg.nJob + k,
                 err |-> "none", k |-> k + 1]
    [] name = "preDefinedSeed" ->
         IF PredefinedSeeds(id) = NoSeed
           THEN [seed |-> InvalidSeed, err |-> "Configuration", k |-> k]
           ELSE [seed |-> PredefinedSeeds(id), err |-> "none", k |-> k]

\* createSeed that never asks the initial policy
PerEventPolicy_createSeed_none(cfg, k, id) ==
  [seed |-> InvalidSeed, err |-> "none", k |-> k]

\* PerEventPolicy::createSeed
PerEventPolicy_createSeed(cfg, k, id) ==
  IF cfg.init # "none"
    THEN StandardPolicySeed(cfg, cfg.init, k, id)
    ELSE [seed |-> InvalidSeed, err |-> "none", k |-> k]

\* policy_impl->getSeed(id)
PolicyGetSeed(cfg, k, id) ==
  IF cfg.policy = "perEvent"
    THEN PerEventPolicy_createSeed(cfg, k, id)
    ELSE StandardPolicySeed(cfg, cfg.policy, k, id)

\* a perEvent policy that answers for its initial policy
yieldsUniqueSeeds_ofInit(cfg) ==
  \/ cfg.policy \in {"autoIncrement", "linearMapping"}
  \/ cfg.policy = "perEvent" /\ cfg.init \in {"autoIncrement", "linearMapping"}

yieldsUniqueSeeds(cfg) == cfg.policy \in {"autoIncrement", "linearMapping"}

\* codes of the pieces of the string EventTimestamp_v1 hashes
LabelCode(label) ==
  CASE label = "" -> 0 [] label = "M" -> 13 [] label = "N" -> 14
    [] label = "x" -> 24 [] label = "P" -> 16 [] OTHER -> 1
ProcessCode == LabelCode("P")

UniqueEventString(info) ==
  << info.runNumber, info.subRunNumber, info.eventNumber, info.time >>

RECURSIVE StringHash(_, _)
StringHash(s, h) ==
  IF s = << >> THEN h
  ELSE StringHash(Tail(s), (h * 31 + Head(s)) % SeedModulus)

\* ValidSeed<seed_t>(value): coerce to the seed type, never InvalidSeed
ValidSeed(value) ==
  IF value % SeedModulus = InvalidSeed THEN 1 ELSE value % SeedModulus

SeedFromHash(s) == ValidSeed(StringHash(s, 7))

\* EventTimestamp_v1 without the test of the timestamp
EventTimestamp_v1_unchecked(id, info) ==
  [seed |->
     SeedFromHash(
       UniqueEventString(info)
         \o << ProcessCode, LabelCode(id.moduleLabel) >>
         \o (IF id.instanceName # ""
               THEN << LabelCode(id.instanceName) >> ELSE << >>)),
   err |-> "none"]

\* PerEventPolicy::EventTimestamp_v1
EventTimestamp_v1(id, info) ==
  IF ~info.isTimeValid
    THEN [seed |-> InvalidSeed, err |-> "InvalidNumber"]
    ELSE [seed |->
            SeedFromHash(
              UniqueEventString(info)
                \o << ProcessCode, LabelCode(id.moduleLabel) >>
                \o (IF id.instanceName # ""
                      THEN << LabelCode(id.instanceName) >> ELSE << >>)),
          err |-> "none"]

\* createEventSeed with the sum made valid again
PerEventPolicy_createEventSeed_validated(cfg, id, info) ==
  LET e == EventTimestamp_v1(id, info)
  IN  IF e.err # "none" THEN e
      ELSE [seed |-> ValidSeed(e.seed + cfg.offset), err |-> "none"]

\* PerEventPolicy::createEventSeed
PerEventPolicy_createEventSeed(cfg, id, info) ==
  LET e == EventTimestamp_v1(id, info)
  IN  IF e.err # "none" THEN e
      ELSE [seed |-> (e.seed + cfg.offset) % SeedModulus, err |-> "none"]

\* a policy that computes an event seed whatever its kind
PolicyGetEventSeed_always(cfg, id, info) ==
  PerEventPolicy_createEventSeed(cfg, id, info)

\* policy_impl->getEventSeed(id, data)
PolicyGetEventSeed(cfg, id, info) ==
  IF cfg.policy = "perEvent"
    THEN PerEventPolicy_createEventSeed(cfg, id, info)
    ELSE [seed |-> InvalidSeed, err |-> "none"]

----------------------------------------------------------------------------
(* SeedMaster *)

hasEngine(sm, id) == sm.ed[id].present

hasSeeder(sm, id) == sm.ed[id].present /\ sm.ed[id].seeder

isFrozen(info) == ~info.autoseed

getSeedFromMap(seeds, id) == IF seeds[id] = NoSeed THEN InvalidSeed ELSE seeds[id]

getCurrentSeed(id) == getSeedFromMap(currentSeeds, id)

\* SeedMaster::ensureUnique: TRUE iff it does not throw
ensureUnique(id, seed, seeds) ==
  \A other \in Ids : other = id \/ seeds[other] = NoSeed \/ seeds[other] # seed

\* currentSeeds if an invalid seed were never recorded
recordCurrent_validOnly(cur, id, seed) ==
  IF seed # InvalidSeed THEN [cur EXCEPT ![id] = seed] ELSE cur

\* currentSeeds after a seed was computed: a valid seed is recorded,
\* an invalid one only if there is no entry yet (emplace)
recordCurrent(cur, id, seed) ==
  IF seed # InvalidSeed \/ cur[id] = NoSeed
    THEN [cur EXCEPT ![id] = seed] ELSE cur

\* getSeed without the look-up of the saved seed: every call asks the policy
SM_getSeed_uncached(cfg, sm, id) ==
  LET p == PolicyGetSeed(cfg, sm.k, id)
      sm1 == [sm EXCEPT !.k = p.k]
  IN  IF p.err # "none" THEN Throw(sm1, p.err, "policy")
      ELSE Ret([sm1 EXCEPT !.conf[id] = p.seed,
                           !.cur = recordCurrent(sm.cur, id, p.seed)],
               p.seed)

\* SeedMaster::getSeed(EngineId)
SM_getSeed(cfg, sm, id) ==
  IF sm.conf[id] # NoSeed THEN Ret(sm, sm.conf[id])
  ELSE
    LET p == PolicyGetSeed(cfg, sm.k, id)
        sm1 == [sm EXCEPT !.k = p.k]
    IN  IF p.err # "none" THEN Throw(sm1, p.err, "policy")
        ELSE IF yieldsUniqueSeeds(cfg) /\ ~ensureUnique(id, p.seed, sm.conf)
          THEN Throw(sm1, "LogicError", "ensureUnique")
        ELSE Ret([sm1 EXCEPT !.conf[id] = p.seed,
                             !.cur = recordCurrent(sm.cur, id, p.seed)],
                 p.seed)

\* getEventSeed whose seed depends on how many engines are registered
SM_getEventSeed_byRegistration(cfg, sm, data, id) ==
  IF sm.known[id] # NoSeed THEN Ret(sm, sm.known[id])
  ELSE
    LET p == PolicyGetEventSeed(cfg, id, data)
        seed == IF p.seed = InvalidSeed THEN InvalidSeed
                ELSE ValidSeed(p.seed
                       + Cardinality({ e \in Ids : sm.ed[e].present }))
    IN  IF p.err # "none" THEN Throw(sm, p.err, "policy")
        ELSE Ret([sm EXCEPT !.known[id] = seed,
                            !.cur = recordCurrent(sm.cur, id, seed)],
                 seed)

\* SeedMaster::getEventSeed(EventData_t, EngineId)
SM_getEventSeed(cfg, sm, data, id) ==
  IF sm.known[id] # NoSeed THEN Ret(sm, sm.known[id])
  ELSE
    LET p == PolicyGetEventSeed(cfg, id, data)
    IN  IF p.err # "none" THEN Throw(sm, p.err, "policy")
        ELSE IF p.seed # InvalidSeed /\ yieldsUniqueSeeds(cfg)
                  /\ ~ensureUnique(id, p.seed, sm.known)
          THEN Throw(sm, "LogicError", "ensureUnique")
        ELSE Ret([sm EXCEPT !.known[id] = p.seed,
                            !.cur = recordCurrent(sm.cur, id, p.seed)],
                 p.seed)

\* SeedMaster::registerSeeder: engineData[id].setSeeder(seeder)
SM_registerSeeder(sm, id, seeder) ==
  Ret([sm EXCEPT !.ed[id] =
         IF sm.ed[id].present THEN [sm.ed[id] EXCEPT !.seeder = seeder]
         ELSE EngineInfo(seeder, TRUE)],
      InvalidSeed)

\* SeedMaster::registerNewSeeder
SM_registerNewSeeder(sm, id, seeder) ==
  IF hasEngine(sm, id) THEN Throw(sm, "LogicError", "registerNewSeeder")
  ELSE SM_registerSeeder(sm, id, seeder)

\* freezeSeed that does not record the seed as the current one
SM_freezeSeed_configuredOnly(sm, id, seed) ==
  IF ~sm.ed[id].present THEN Throw(sm, "out_of_range", "freezeSeed")
  ELSE Ret([sm EXCEPT !.ed[id].autoseed = FALSE, !.conf[id] = seed],
           InvalidSeed)

\* freezeSeed through engineData[id], which makes the record of an unknown id
SM_freezeSeed_inserting(sm, id, seed) ==
  Ret([sm EXCEPT !.ed[id] = EngineInfo(sm.ed[id].seeder, FALSE),
                 !.conf[id] = seed,
                 !.cur[id] = seed],
      InvalidSeed)

\* SeedMaster::freezeSeed; engineData.at(id) throws for an unknown id
SM_freezeSeed(sm, id, seed) ==
  IF ~sm.ed[id].present THEN Throw(sm, "out_of_range", "freezeSeed")
  ELSE Ret([sm EXCEPT !.ed[id].autoseed = FALSE,
                      !.conf[id] = seed,
                      !.cur[id] = seed],
           InvalidSeed)

\* EngineInfo_t::applySeed: the seeder, if any, sets the seed of the engine
applySeed(sm, id, seed) ==
  IF sm.ed[id].seeder
    THEN [sm EXCEPT !.eng[id] = seed, !.dlv[id] = seed]
    ELSE sm

\* EngineInfo_t::autoApplySeed
autoApplySeed(sm, id, seed) ==
  IF ~isFrozen(sm.ed[id]) THEN applySeed(sm, id, seed) ELSE sm

\* SeedMaster::reseed
SM_reseed(cfg, sm, id) ==
  IF ~sm.ed[id].present THEN Throw(sm, "out_of_range", "reseed")
  ELSE IF isFrozen(sm.ed[id]) THEN Ret(sm, InvalidSeed)
  ELSE
    LET g == SM_getSeed(cfg, sm, id)
    IN  IF g.err # "none" THEN g
        ELSE IF g.ret # InvalidSeed THEN Ret(applySeed(g.sm, id, g.ret), g.ret)
        ELSE g

\* reseedEvent without the test for a frozen seed
SM_reseedEvent_unfrozen(cfg, sm, id, data) ==
  IF ~sm.ed[id].present THEN Throw(sm, "out_of_range", "reseedEvent")
  ELSE
    LET g == SM_getEventSeed(cfg, sm, data, id)
    IN  IF g.err # "none" THEN g
        ELSE IF g.ret # InvalidSeed
          THEN Ret(autoApplySeed(g.sm, id, g.ret), g.ret)
        ELSE g

\* SeedMaster::reseedEvent
SM_reseedEvent(cfg, sm, id, data) ==
  IF ~sm.ed[id].present THEN Throw(sm, "out_of_range", "reseedEvent")
  ELSE IF isFrozen(sm.ed[id]) THEN Ret(sm, InvalidSeed)
  ELSE
    LET g == SM_getEventSeed(cfg, sm, data, id)
    IN  IF g.err # "none" THEN g
        ELSE IF g.ret # InvalidSeed
          THEN Ret(autoApplySeed(g.sm, id, g.ret), g.ret)
        ELSE g

\* onNewEvent that forgets nothing
SM_onNewEvent_keep(sm) == sm

\* SeedMaster::onNewEvent
SM_onNewEvent(sm) == [sm EXCEPT !.known = [id \in Ids |-> NoSeed]]

----------------------------------------------------------------------------
(* ArtState *)

Phases ==
  {"notStarted", "inServiceConstructor", "inModuleConstructor",
   "inModuleBeginRun", "inEvent", "inModuleEvent", "inEndJob"}

\* ArtState::reset_state
DefaultPhase == "notStarted"

NoEvent ==
  [runNumber |-> 0, subRunNumber |-> 0, eventNumber |-> 0, time |-> 0,
   isTimeValid |-> FALSE]

\* the events the source delivers: event n of run 1, subrun 0, with the
\* timestamp of the event (valid or not, depending on the timestamp plugin)
EventData(n, valid) ==
  [runNumber |-> 1, subRunNumber |-> 0, eventNumber |-> n, time |-> 100 + n,
   isTimeValid |-> valid]

----------------------------------------------------------------------------
(* NuRandomService *)

\* NuRandomService::qualify_engine_label(instanceName)
qualify_engine_label(instanceName) == EngineId(curModule, instanceName)

\* ensureValidState with the begin-run alternative the source has commented
\* out: module engines could be registered in beginRun as well
ensureValidState_beginRun(ph, bGlobal) ==
  IF bGlobal THEN ph = "inServiceConstructor"
  ELSE ph \in {"inModuleConstructor", "inModuleBeginRun"}

\* NuRandomService::ensureValidState: TRUE iff it does not throw
ensureValidState(ph, bGlobal) ==
  IF bGlobal THEN ph = "inServiceConstructor"
  ELSE ph = "inModuleConstructor"

\* registerEngineIdAndSeeder without the test of the phase
registerEngineIdAndSeeder_anyPhase(sm, ph, id, seeder) ==
  IF hasEngine(sm, id)
    THEN Throw(sm, "LogicError", "registerEngineIdAndSeeder")
  ELSE SM_registerNewSeeder(sm, id, seeder)

\* registerEngineIdAndSeeder without the test for an existing engine, going
\* straight to SeedMaster::registerSeeder
registerEngineIdAndSeeder_unchecked(sm, ph, id, seeder) ==
  IF ~ensureValidState(ph, isGlobal(id))
    THEN Throw(sm, "LogicError", "ensureValidState")
  ELSE SM_registerSeeder(sm, id, seeder)

\* NuRandomService::registerEngineIdAndSeeder
registerEngineIdAndSeeder(sm, ph, id, seeder) ==
  IF ~ensureValidState(ph, isGlobal(id))
    THEN Throw(sm, "LogicError", "ensureValidState")
  ELSE IF hasEngine(sm, id)
    THEN Throw(sm, "LogicError", "registerEngineIdAndSeeder")
  ELSE SM_registerNewSeeder(sm, id, seeder)

\* NuRandomService::querySeed
querySeed(cfg, sm, id) == SM_getSeed(cfg, sm, id)

\* NuRandomService::seedEngine
seedEngine(cfg, sm, id) == SM_reseed(cfg, sm, id)

\* extractSeed taking every seed that is present, InvalidSeed included
extractSeed_anyPresent(cfg, sm, id, seed) ==
  IF seed # NoSeed
    THEN [sm |-> sm, ret |-> seed, frozen |-> TRUE,
          err |-> "none", site |-> "none"]
    ELSE LET q == querySeed(cfg, sm, id)
         IN  [sm |-> q.sm, ret |-> q.ret, frozen |-> FALSE,
              err |-> q.err, site |-> q.site]

\* NuRandomService::extractSeed: ret is the seed value, frozen the flag
extractSeed(cfg, sm, id, seed) ==
  IF seed # NoSeed /\ seed # InvalidSeed
    THEN [sm |-> sm, ret |-> seed, frozen |-> TRUE,
          err |-> "none", site |-> "none"]
    ELSE LET q == querySeed(cfg, sm, id)
         IN  [sm |-> q.sm, ret |-> q.ret, frozen |-> FALSE,
              err |-> q.err, site |-> q.site]

\* NuRandomService::registerEngine(Seeder_t, string, optional<seed_t>)
NRS_registerEngine(cfg, sm, ph, id, seeder, seed) ==
  LET r == registerEngineIdAndSeeder(sm, ph, id, seeder)
  IN  IF r.err # "none" THEN r
      ELSE
        LET x == extractSeed(cfg, r.sm, id, seed)
        IN  IF x.err # "none" THEN Throw(x.sm, x.err, x.site)
            ELSE
              LET e == seedEngine(cfg, x.sm, id)   \* seed it before freezing
              IN  IF e.err # "none" THEN e
                  ELSE IF x.frozen
                    THEN Ret(SM_freezeSeed(e.sm, id, x.ret).sm, x.ret)
                  ELSE Ret(e.sm, x.ret)

\* registerAndSeedEngine that seeds the engine but never freezes the seed
NRS_registerAndSeedEngine_noFreeze(cfg, sm, ph, id, seed) ==
  LET r == registerEngineIdAndSeeder(sm, ph, id, TRUE)
  IN  IF r.err # "none" THEN r
      ELSE
        LET q == querySeed(cfg, r.sm, id)
        IN  IF q.err # "none" THEN q
            ELSE Ret([q.sm EXCEPT !.eng[id] =
                        IF seed \notin {NoSeed, InvalidSeed} THEN seed
                        ELSE q.ret],
                     q.ret)

\* NuRandomService::registerAndSeedEngine(engine_t&, string, string,
\* optional<seed_t>): the seeder is a CLHEPengineSeeder, the engine is
\* seeded directly with engine.setSeed(seedValue, 0)
NRS_registerAndSeedEngine(cfg, sm, ph, id, seed) ==
  LET r == registerEngineIdAndSeeder(sm, ph, id, TRUE)
  IN  IF r.err # "none" THEN r
      ELSE
        LET x == extractSeed(cfg, r.sm, id, seed)
        IN  IF x.err # "none" THEN Throw(x.sm, x.err, x.site)
            ELSE
              LET sm1 == [x.sm EXCEPT !.eng[id] = x.ret]
              IN  IF x.frozen
                    THEN Ret(SM_freezeSeed(sm1, id, x.ret).sm, x.ret)
                    ELSE Ret(sm1, x.ret)

\* NuRandomService::prepareEngine
prepareEngine(cfg, sm, ph, id, seeder) ==
  LET r == registerEngineIdAndSeeder(sm, ph, id, seeder)
  IN  IF r.err # "none" THEN r ELSE querySeed(cfg, r.sm, id)

\* NuRandomService::registerEngineID
registerEngineID(cfg, sm, ph, id, seeder) ==
  LET r == prepareEngine(cfg, sm, ph, id, seeder)
  IN  IF r.err # "none" THEN r ELSE seedEngine(cfg, r.sm, id)

\* getSeed without the test for an existing engine: it always declares
NRS_getSeed_declaring(cfg, sm, ph, id) ==
  registerEngineID(cfg, sm, ph, id, FALSE)

\* NuRandomService::getSeed(EngineId)
NRS_getSeed(cfg, sm, ph, id) ==
  IF hasEngine(sm, id) THEN querySeed(cfg, sm, id)
  ELSE registerEngineID(cfg, sm, ph, id, FALSE)

\* defineEngineID without the test for a seeder already present
defineEngineID_redefining(cfg, sm, ph, id, seeder) ==
  IF ~hasEngine(sm, id) THEN Throw(sm, "LogicError", "defineEngineID:undeclared")
  ELSE IF ~ensureValidState(ph, FALSE)
    THEN Throw(sm, "LogicError", "ensureValidState")
  ELSE seedEngine(cfg, SM_registerSeeder(sm, id, seeder).sm, id)

\* NuRandomService::defineEngineID
defineEngineID(cfg, sm, ph, id, seeder) ==
  IF ~hasEngine(sm, id) THEN Throw(sm, "LogicError", "defineEngineID:undeclared")
  ELSE IF hasSeeder(sm, id)
    THEN Throw(sm, "LogicError", "defineEngineID:redefined")
  ELSE IF ~ensureValidState(ph, FALSE)
    THEN Throw(sm, "LogicError", "ensureValidState")
  ELSE seedEngine(cfg, SM_registerSeeder(sm, id, seeder).sm, id)

\* readSeedParameter passing over the keys whose value is InvalidSeed
RECURSIVE readSeedParameter_skipInvalid(_, _)
readSeedParameter_skipInvalid(pset, pnames) ==
  IF pnames = << >> THEN NoSeed
  ELSE IF pset[Head(pnames)] \notin {NoSeed, InvalidSeed}
    THEN pset[Head(pnames)]
  ELSE readSeedParameter_skipInvalid(pset, Tail(pnames))

\* NuRandomService::readSeedParameter(ParameterSet, names): the value of the
\* first of the names that is present
RECURSIVE readSeedParameter(_, _)
readSeedParameter(pset, pnames) ==
  IF pnames = << >> THEN NoSeed
  ELSE IF pset[Head(pnames)] # NoSeed THEN pset[Head(pnames)]
  ELSE readSeedParameter(pset, Tail(pnames))

\* NuRandomService::readSeedParameter(SeedAtom)
readSeedParameterAtom(param) == IF param.present THEN param.value ELSE NoSeed

\* NuRandomService::reseedInstance
reseedInstance(cfg, sm, id, data) == SM_reseedEvent(cfg, sm, id, data)

\* the loop of reseedModule / reseedGlobal over engineIDsRange(), from the
\* i-th ID on; an exception ends the loop
RECURSIVE reseedLoop(_, _, _, _, _, _)
reseedLoop(cfg, sm, data, global, currentModule, i) ==
  IF i > Len(IdOrder) THEN Ret(sm, InvalidSeed)
  ELSE
    LET id == IdOrder[i]
        skip == \/ ~sm.ed[id].present
                \/ (global /\ ~isGlobal(id))
                \/ (~global /\ id.moduleLabel # currentModule)
    IN  IF skip THEN reseedLoop(cfg, sm, data, global, currentModule, i + 1)
        ELSE
          LET r == reseedInstance(cfg, sm, id, data)
          IN  IF r.err # "none" THEN r
              ELSE reseedLoop(cfg, r.sm, data, global, currentModule, i + 1)

\* reseedGlobal that reseeds nothing
reseedGlobal_none(cfg, sm, data) == Ret(sm, InvalidSeed)

\* reseedModule that takes the global engines instead of the ones of the
\* module
reseedModule_global(cfg, sm, currentModule, data) ==
  reseedLoop(cfg, sm, data, TRUE, "", 1)

\* NuRandomService::reseedModule(string)
reseedModule(cfg, sm, currentModule, data) ==
  reseedLoop(cfg, sm, data, FALSE, currentModule, 1)

\* NuRandomService::reseedGlobal
reseedGlobal(cfg, sm, data) == reseedLoop(cfg, sm, data, TRUE, "", 1)

----------------------------------------------------------------------------
(* Initial state: the service has been constructed with some policy, and    *)
(* the framework is still constructing services                            *)

NoId == EngineId("-", "-")

\* the record of a call: what was called, for which engine and with which
\* outcome, with the seed it was given and, if it returned, the parameter set
\* the seed was read from
CallRecord(op, overload, id, seed, pset, pnames, r) ==
  [op |-> op, id |-> id,
   overload |-> IF r.err = "none" THEN overload ELSE "",
   seed |-> seed,
   pset |-> IF r.err = "none" THEN pset ELSE EmptyPSet,
   pnames |-> IF r.err = "none" THEN pnames ELSE << >>,
   err |-> r.err, site |-> r.site, ret |-> r.ret]

\* history kept for an engine: the first call of a kind that returned, with
\* the value it returned; a specification observes the engines whose entry
\* starts as Pending, and keeps no history of the others
Unobserved == [observed |-> FALSE, op |-> "", ret |-> NoSeed]
Pending == [observed |-> TRUE, op |-> "", ret |-> NoSeed]
Observed(op, ret) == [observed |-> TRUE, op |-> op, ret |-> ret]

SeedQueries == {"getSeed", "getGlobalSeed"}

\* history: the value the first seed query for an engine returned
firstSeedAfter(op, id, r) ==
  IF op \in SeedQueries /\ r.err = "none"
    THEN IF firstSeed[id] = Pending
           THEN [firstSeed EXCEPT ![id] = Observed(op, r.ret)] ELSE firstSeed
    ELSE firstSeed

DeclarationOps == SeedQueries \cup {"declareEngine"}

\* history: the call of the service that declared an engine (created its
\* record without a seeder) and returned, with the value it returned
declarationAfter(op, id, r) ==
  IF op \in DeclarationOps /\ r.err = "none"
    THEN IF /\ declaration[id] = Pending
            /\ ~engineData[id].present /\ r.sm.ed[id].present
           THEN [declaration EXCEPT ![id] = Observed(op, r.ret)]
           ELSE declaration
    ELSE declaration

\* the service after its construction
ConstructedFrom(configs) ==
  /\ policy \in configs
  /\ engineData = [id \in Ids |-> NoEngine]
  /\ configuredSeeds = [id \in Ids |-> NoSeed]
  /\ knownEventSeeds = [id \in Ids |-> NoSeed]
  /\ currentSeeds = [id \in Ids |-> NoSeed]
  /\ nextOffset = 0
  /\ engineSeed = [id \in Ids |-> NoSeed]
  /\ delivered = NoDelivery
  /\ phase = "inServiceConstructor"
  /\ curModule = ""
  /\ curEvent = NoEvent
  /\ fw = "services"
  /\ constructed = {}
  /\ nEvents = 0
  /\ lastCall = [op |-> "NuRandomService", id |-> NoId, overload |-> "",
                 seed |-> NoSeed, pset |-> EmptyPSet,
                 pnames |-> << >>, err |-> "none", site |-> "none",
                 ret |-> InvalidSeed]
  /\ threads = NoThreads

Constructed == ConstructedFrom(PolicyConfigs)

Init ==
  /\ Constructed
  /\ firstSeed = [id \in Ids |-> Unobserved]
  /\ declaration = [id \in Ids |-> Unobserved]
  /\ before = Before

\* the same, with the history of the declarations observed
InitParam ==
  /\ Constructed
  /\ firstSeed = [id \in Ids |-> Unobserved]
  /\ declaration = [id \in Ids |-> Pending]
  /\ before = Before

Registered(ed) == { id \in Ids : ed[id].present }

\* the state a call leaves in the SeedMaster and the engines
Commit(sm) ==
  /\ engineData' = sm.ed
  /\ configuredSeeds' = sm.conf
  /\ knownEventSeeds' = sm.known
  /\ currentSeeds' = sm.cur
  /\ nextOffset' = sm.k
  /\ engineSeed' = sm.eng
  /\ delivered' = sm.dlv

\* user code runs in the constructor of a service, in the constructor,
\* beginRun, event and endJob methods of a module, and in the callbacks of
\* other services between modules
UserCode ==
  {"services", "ctor", "beginRun", "idleRun", "event", "moduleEvent", "endJob"}

\* a call by user code with outcome r
UserCall(op, overload, id, seed, pset, pnames, r) ==
  /\ fw \in UserCode
  /\ r.sm.k <= MaxPolicyCalls
  /\ Cardinality(Registered(r.sm.ed)) <= MaxEngines
  /\ Commit(r.sm)
  /\ lastCall' = CallRecord(op, overload, id, seed, pset, pnames, r)
  /\ before' = Before
  /\ firstSeed' = firstSeedAfter(op, id, r)
  /\ declaration' = declarationAfter(op, id, r)
  /\ UNCHANGED << policy, artVars, threads >>

----------------------------------------------------------------------------
(* Operations of NuRandomService called by user code *)

\* registerEngine(seeder, instance, optional<seed_t>)
RegisterEngine(values) ==
  \E inst \in Instances(curModule), seed \in OptSeeds(values) :
    LET id == qualify_engine_label(inst)
    IN  UserCall("registerEngine", "optional", id, seed, EmptyPSet, << >>,
                 NRS_registerEngine(policy, SM, phase, id, TRUE, seed))

\* registerEngine(seeder, instance, pset, pnames)
RegisterEnginePSet(psets, names) ==
  \E inst \in Instances(curModule), pset \in psets, pnames \in names :
    LET id == qualify_engine_label(inst)
        seed == readSeedParameter(pset, pnames)
    IN  UserCall("registerEngine", "pset", id, seed, pset, pnames,
                 NRS_registerEngine(policy, SM, phase, id, TRUE, seed))

\* declareEngine(instance)
DeclareEngine ==
  \E inst \in Instances(curModule) :
    LET id == qualify_engine_label(inst)
    IN  UserCall("declareEngine", "", id, NoSeed, EmptyPSet, << >>,
                 NRS_registerEngine(policy, SM, phase, id, FALSE, NoSeed))

\* declareEngine(instance, pset, pnames)
DeclareEnginePSet(psets, names) ==
  \E inst \in Instances(curModule), pset \in psets, pnames \in names :
    LET id == qualify_engine_label(inst)
        seed == readSeedParameter(pset, pnames)
    IN  UserCall("declareEngine", "pset", id, seed, pset, pnames,
                 NRS_registerEngine(policy, SM, phase, id, FALSE, seed))

\* registerAndSeedEngine(engine, type, instance, SeedAtom)
RegisterAndSeedEngine(params) ==
  \E inst \in Instances(curModule), param \in params :
    LET id == qualify_engine_label(inst)
        seed == readSeedParameterAtom(param)
    IN  UserCall("registerAndSeedEngine", "atom", id, seed, EmptyPSet,
             << >>,
                 NRS_registerAndSeedEngine(policy, SM, phase, id, seed))

\* defineEngine(seeder, instance)
DefineEngine ==
  \E inst \in Instances(curModule) :
    LET id == qualify_engine_label(inst)
    IN  UserCall("defineEngine", "", id, NoSeed, EmptyPSet, << >>,
                 defineEngineID(policy, SM, phase, id, TRUE))

\* getSeed(instanceName)
GetSeed ==
  \E inst \in Instances(curModule) :
    LET id == qualify_engine_label(inst)
    IN  UserCall("getSeed", "", id, NoSeed, EmptyPSet, << >>,
                 NRS_getSeed(policy, SM, phase, id))

\* getSeed(moduleLabel, instanceName)
GetSeedOf ==
  \E m \in Modules : \E inst \in Instances(m) :
    LET id == EngineId(m, inst)
    IN  UserCall("getSeed", "", id, NoSeed, EmptyPSet, << >>,
                 NRS_getSeed(policy, SM, phase, id))

\* getGlobalSeed(instanceName)
GetGlobalSeed ==
  \E inst \in Instances("") :
    LET id == GlobalEngineId(inst)
    IN  UserCall("getGlobalSeed", "", id, NoSeed, EmptyPSet, << >>,
                 NRS_getSeed(policy, SM, phase, id))

----------------------------------------------------------------------------
(* Callbacks called by the framework *)

\* what a callback leaves behind: the SeedMaster, the ArtState, and where
\* the framework goes next (a callback that throws aborts the job)
Callback(op, r, ph, module, event, next) ==
  /\ Commit(r.sm)
  /\ phase' = ph
  /\ curModule' = module
  /\ curEvent' = event
  /\ fw' = IF r.err # "none" THEN "aborted" ELSE next
  /\ lastCall' = CallRecord(op, "", NoId, NoSeed, EmptyPSet, << >>, r)
  /\ before' = Before
  /\ UNCHANGED << policy, histVars, threads >>

\* the modules of the job are constructed in the order of the configuration,
\* all of them before the first run begins
ModuleOrder == << "M", "N" >>

preModuleConstruction ==
  \E m \in Modules \ constructed :
    /\ fw \in {"services", "idleCtor"}
    /\ m = ModuleOrder[Cardinality(constructed) + 1]
    /\ constructed' = constructed \cup {m}
    /\ UNCHANGED nEvents
    /\ Callback("preModuleConstruction", Ret(SM, InvalidSeed),
                "inModuleConstructor", m, curEvent, "ctor")

postModuleConstruction ==
  /\ fw = "ctor"
  /\ UNCHANGED << constructed, nEvents >>
  /\ Callback("postModuleConstruction", Ret(SM, InvalidSeed),
              DefaultPhase, curModule, curEvent, "idleCtor")

preModuleBeginRun ==
  \E m \in constructed :
    /\ fw \in {"idleCtor", "idleRun"}
    /\ constructed = Modules
    /\ nEvents = 0
    /\ UNCHANGED << constructed, nEvents >>
    /\ Callback("preModuleBeginRun", Ret(SM, InvalidSeed),
                "inModuleBeginRun", m, curEvent, "beginRun")

postModuleBeginRun ==
  /\ fw = "beginRun"
  /\ UNCHANGED << constructed, nEvents >>
  /\ Callback("postModuleBeginRun", Ret(SM, InvalidSeed),
              DefaultPhase, curModule, curEvent, "idleRun")

preProcessEvent ==
  \E valid \in BOOLEAN :
    LET evt == EventData(nEvents + 1, valid)
    IN  /\ fw \in {"idleCtor", "idleRun"}
        /\ constructed = Modules
        /\ nEvents < MaxEvents
        /\ nEvents' = nEvents + 1
        /\ UNCHANGED constructed
        /\ Callback("preProcessEvent",
                    reseedGlobal(policy, SM_onNewEvent(SM), evt),
                    "inEvent", curModule, evt, "event")

preModule ==
  \E m \in constructed :
    /\ fw = "event"
    /\ UNCHANGED << constructed, nEvents >>
    /\ Callback("preModule", reseedModule(policy, SM, m, curEvent),
                "inModuleEvent", m, curEvent, "moduleEvent")

postModule ==
  /\ fw = "moduleEvent"
  /\ UNCHANGED << constructed, nEvents >>
  /\ Callback("postModule", Ret(SM, InvalidSeed),
              DefaultPhase, "", curEvent, "event")

postProcessEvent ==
  /\ fw = "event"
  /\ UNCHANGED << constructed, nEvents >>
  /\ Callback("postProcessEvent", Ret(SM, InvalidSeed),
              DefaultPhase, curModule, NoEvent, "idleRun")

preModuleEndJob ==
  \E m \in constructed :
    /\ fw \in {"idleCtor", "idleRun", "idleEnd"}
    /\ constructed = Modules
    /\ UNCHANGED << constructed, nEvents >>
    /\ Callback("preModuleEndJob", Ret(SM, InvalidSeed),
                "inEndJob", m, curEvent, "endJob")

postModuleEndJob ==
  /\ fw = "endJob"
  /\ UNCHANGED << constructed, nEvents >>
  /\ Callback("postModuleEndJob", Ret(SM, InvalidSeed),
              DefaultPhase, curModule, curEvent, "idleEnd")

postEndJob ==
  /\ fw \in {"idleCtor", "idleRun", "idleEnd"}
  /\ constructed = Modules
  /\ UNCHANGED << constructed, nEvents >>
  /\ Callback("postEndJob", Ret(SM, InvalidSeed),
              phase, curModule, curEvent, "ended")

----------------------------------------------------------------------------
(* The service in a job. registerEngine and declareEngine are called       *)
(* without seed override, registerAndSeedEngine without override and with  *)
(* the override 42; the other ways of giving an override are those of the  *)
(* constructors below.                                                     *)

Next ==
  \/ RegisterEngine({})
  \/ DeclareEnginePSet({EmptyPSet}, SmallPNames)
  \/ RegisterAndSeedEngine(SeedAtoms({42}))
  \/ DefineEngine
  \/ GetSeed
  \/ GetGlobalSeed
  \/ preModuleConstruction
  \/ postModuleConstruction
  \/ preModuleBeginRun
  \/ postModuleBeginRun
  \/ preProcessEvent
  \/ preModule
  \/ postModule
  \/ postProcessEvent
  \/ preModuleEndJob
  \/ postModuleEndJob
  \/ postEndJob

Spec == Init /\ [][Next]_vars

----------------------------------------------------------------------------
(* Module and service constructors, with the whole vocabulary of            *)
(* registration calls and of seed parameters                                *)

NextParam ==
  \/ RegisterEngine({0, 42})
  \/ RegisterEnginePSet(AllPSets, AllPNames)
  \/ DeclareEngine
  \/ DeclareEnginePSet(SmallPSets, SmallPNames)
  \/ RegisterAndSeedEngine(SeedAtoms({0, 42}))
  \/ DefineEngine
  \/ GetSeed
  \/ GetSeedOf
  \/ preModuleConstruction
  \/ postModuleConstruction

SpecParam == InitParam /\ [][NextParam]_vars

----------------------------------------------------------------------------
(* The SeedMaster on its own, driven through its public interface *)

MasterIds == { EngineId("M", ""), GlobalEngineId("x") }
MasterSeeds == {42}
MasterEvents == { EventData(1, TRUE) }

\* a call of a SeedMaster method with outcome r
MasterCall(op, id, seed, data, r) ==
  /\ r.sm.k <= MaxPolicyCalls
  /\ Cardinality(Registered(r.sm.ed)) <= MaxEngines
  /\ Commit(r.sm)
  /\ curEvent' = data
  /\ lastCall' = CallRecord(op, "", id, seed, EmptyPSet, << >>, r)
  /\ firstSeed' = firstSeedAfter(op, id, r)
  /\ UNCHANGED << policy, phase, curModule, fw, constructed, nEvents, threads,
                  declaration, before >>

SeedMaster_registerSeeder ==
  \E id \in MasterIds, seeder \in BOOLEAN :
    MasterCall("registerSeeder", id, NoSeed, curEvent,
               SM_registerSeeder(SM, id, seeder))

SeedMaster_registerNewSeeder ==
  \E id \in MasterIds, seeder \in BOOLEAN :
    MasterCall("registerNewSeeder", id, NoSeed, curEvent,
               SM_registerNewSeeder(SM, id, seeder))

SeedMaster_freezeSeedWith(seeds) ==
  \E id \in MasterIds, seed \in seeds :
    MasterCall("freezeSeed", id, seed, curEvent, SM_freezeSeed(SM, id, seed))

SeedMaster_freezeSeed == SeedMaster_freezeSeedWith(MasterSeeds)

SeedMaster_getSeedOf(ids) ==
  \E id \in ids :
    MasterCall("getSeed", id, NoSeed, curEvent, SM_getSeed(policy, SM, id))

SeedMaster_getSeed == SeedMaster_getSeedOf(MasterIds)

SeedMaster_getEventSeedFor(events) ==
  \E id \in MasterIds, data \in events :
    MasterCall("getEventSeed", id, NoSeed, data,
               SM_getEventSeed(policy, SM, data, id))

SeedMaster_getEventSeed == SeedMaster_getEventSeedFor(MasterEvents)

SeedMaster_reseed ==
  \E id \in MasterIds :
    MasterCall("reseed", id, NoSeed, curEvent, SM_reseed(policy, SM, id))

SeedMaster_reseedEventFor(events) ==
  \E id \in MasterIds, data \in events :
    MasterCall("reseedEvent", id, NoSeed, data,
               SM_reseedEvent(policy, SM, id, data))

SeedMaster_reseedEvent == SeedMaster_reseedEventFor(MasterEvents)

SeedMaster_onNewEvent ==
  MasterCall("onNewEvent", NoId, NoSeed, curEvent,
             Ret(SM_onNewEvent(SM), InvalidSeed))

NextMaster ==
  \/ SeedMaster_registerSeeder
  \/ SeedMaster_registerNewSeeder
  \/ SeedMaster_freezeSeed
  \/ SeedMaster_getSeed
  \/ SeedMaster_getEventSeed
  \/ SeedMaster_reseed
  \/ SeedMaster_reseedEvent
  \/ SeedMaster_onNewEvent

SpecMaster == Init /\ [][NextMaster]_vars

\* the SeedMaster under the policies that count the engines they have seen,
\* with the history of the seed queries observed
QueryPolicies ==
  { cfg \in PolicyConfigs : cfg.policy = "perEvent" /\ cfg.init # "none" }

\* the engine whose seed queries are observed
QueriedId == EngineId("M", "")

InitQuery ==
  /\ Constructed
  /\ policy \in QueryPolicies
  /\ firstSeed = [id \in Ids |-> IF id = QueriedId THEN Pending ELSE Unobserved]
  /\ declaration = [id \in Ids |-> Unobserved]
  /\ before = Before

SpecQuery == InitQuery /\ [][NextMaster]_vars

----------------------------------------------------------------------------
(* The event seeds of the SeedMaster, for two events and an event without  *)
(* valid timestamp, under the per-event policies                           *)

EventInputs == { EventData(1, TRUE), EventData(2, TRUE), EventData(2, FALSE) }

InitEvent ==
  /\ Constructed
  /\ policy.policy = "perEvent"
  /\ firstSeed = [id \in Ids |-> Unobserved]
  /\ declaration = [id \in Ids |-> Unobserved]
  /\ before = Before

NextEvent ==
  \/ SeedMaster_registerSeeder
  \/ SeedMaster_freezeSeed
  \/ SeedMaster_getEventSeedFor(EventInputs)
  \/ SeedMaster_reseedEventFor(EventInputs)
  \/ SeedMaster_onNewEvent

SpecEvent == InitEvent /\ [][NextEvent]_vars

----------------------------------------------------------------------------
(* The seeds of the SeedMaster for three engines, under autoIncrement *)

AutoIds == { EngineId("M", ""), EngineId("N", "x"), EngineId("N", "") }

InitAuto ==
  /\ Constructed
  /\ policy.policy = "autoIncrement"
  /\ firstSeed = [id \in Ids |-> Unobserved]
  /\ declaration = [id \in Ids |-> Unobserved]
  /\ before = Before

NextAuto ==
  \/ SeedMaster_registerSeeder
  \/ SeedMaster_freezeSeed
  \/ SeedMaster_getSeedOf(AutoIds)
  \/ SeedMaster_reseed
  \/ SeedMaster_getEventSeed
  \/ SeedMaster_onNewEvent

SpecAuto == InitAuto /\ [][NextAuto]_vars

----------------------------------------------------------------------------
(* The event seeds under perEvent with the offset parameter: no offset,    *)
(* and the offsets that cancel the seed of an engine in an event           *)

OffsetEvents == { EventData(1, TRUE), EventData(2, TRUE) }

OffsetInputs ==
  {0} \cup { SeedModulus - EventTimestamp_v1(QueriedId, info).seed :
               info \in OffsetEvents }

OffsetPolicies ==
  { PolicyConfig("perEvent", init, 100, 0, 0, FALSE, offset) :
      init \in {"none", "autoIncrement"}, offset \in OffsetInputs }

InitOffset ==
  /\ ConstructedFrom(OffsetPolicies)
  /\ firstSeed = [id \in Ids |-> Unobserved]
  /\ declaration = [id \in Ids |-> Unobserved]
  /\ before = Before

NextOffset ==
  \/ SeedMaster_registerSeeder
  \/ SeedMaster_getSeed
  \/ SeedMaster_getEventSeedFor(OffsetEvents)
  \/ SeedMaster_reseedEventFor(OffsetEvents)
  \/ SeedMaster_onNewEvent

SpecOffset == InitOffset /\ [][NextOffset]_vars

----------------------------------------------------------------------------
(* The SeedMaster under perEvent, with engines frozen to the seeds that    *)
(* the initial policy gives out                                            *)

PerEventPolicies == { cfg \in PolicyConfigs : cfg.policy = "perEvent" }

InitPolicySeeds == { cfg.baseSeed : cfg \in QueryPolicies }

InitUnique ==
  /\ ConstructedFrom(PerEventPolicies)
  /\ firstSeed = [id \in Ids |-> Unobserved]
  /\ declaration = [id \in Ids |-> Unobserved]
  /\ before = Before

UniqueEvents == { EventData(1, TRUE) }

NextUnique ==
  \/ SeedMaster_registerSeeder
  \/ SeedMaster_freezeSeedWith(InitPolicySeeds)
  \/ SeedMaster_getSeed
  \/ SeedMaster_getEventSeedFor(UniqueEvents)
  \/ SeedMaster_onNewEvent

SpecUnique == InitUnique /\ [][NextUnique]_vars

----------------------------------------------------------------------------
(* getSeed(moduleLabel, instanceName) called by two threads: the calls     *)
(* NuRandomService::getSeed makes are the steps of a thread, and           *)
(* SeedMaster::getSeed is three steps (look-up, computation, saving);      *)
(* nothing in the source keeps a thread from running between them          *)

ThreadIds == { EngineId("M", ""), EngineId("M", "x") }

Running == { t \in ThreadNames : threads.run[t].pc # "idle" }
Quiescent == Running = {}
AllDone ==
  /\ Running # {}
  /\ \A t \in Running : threads.run[t].pc = "done"

\* a step of thread t: the SeedMaster it leaves and its own new position
ThreadStep(t, sm, th) ==
  /\ sm.k <= MaxPolicyCalls
  /\ Cardinality(Registered(sm.ed)) <= MaxEngines
  /\ Commit(sm)
  /\ threads' = [threads EXCEPT !.run[t] = th]
  /\ UNCHANGED << policy, artVars, lastCall, histVars, before >>

ThreadDone(th, ret, err, site) ==
  [th EXCEPT !.pc = "done", !.ret = ret, !.err = err, !.site = site]

\* where a thread goes when SeedMaster::getSeed returns seed to it
AfterQuerySeed(th, seed) ==
  IF th.path = "query" THEN ThreadDone(th, seed, "none", "none")
  ELSE [th EXCEPT !.pc = "seedEngine", !.seed = seed]

\* the threads enter getSeed(moduleLabel, instanceName)
EnterGetSeed ==
  \E entering \in (SUBSET ThreadNames) \ {{}} :
    \E ids \in [entering -> ThreadIds] :
      /\ Quiescent
      /\ fw \in UserCode
      /\ threads' =
           [base |-> SM,
            run |-> [t \in ThreadNames |->
                       IF t \in entering
                         THEN [IdleThread EXCEPT !.pc = "getSeed",
                                                 !.id = ids[t]]
                         ELSE IdleThread]]
      /\ UNCHANGED << policy, smVars, artVars, lastCall, histVars, before >>

\* NuRandomService::getSeed(EngineId): if (hasEngine(id))
GetSeed_hasEngine(t) ==
  LET th == threads.run[t]
  IN  /\ th.pc = "getSeed"
      /\ ThreadStep(t, SM,
           IF hasEngine(SM, th.id)
             THEN [th EXCEPT !.pc = "find", !.path = "query"]
             ELSE [th EXCEPT !.pc = "registerEngineIdAndSeeder",
                             !.path = "declare"])

\* registerEngineID -> prepareEngine -> registerEngineIdAndSeeder
GetSeed_registerEngineIdAndSeeder(t) ==
  LET th == threads.run[t]
      r == registerEngineIdAndSeeder(SM, phase, th.id, FALSE)
  IN  /\ th.pc = "registerEngineIdAndSeeder"
      /\ ThreadStep(t, r.sm,
           IF r.err # "none" THEN ThreadDone(th, InvalidSeed, r.err, r.site)
           ELSE [th EXCEPT !.pc = "find"])

\* SeedMaster::getSeed: configuredSeeds.find(id)
GetSeed_find(t) ==
  LET th == threads.run[t]
  IN  /\ th.pc = "find"
      /\ ThreadStep(t, SM,
           IF configuredSeeds[th.id] # NoSeed
             THEN AfterQuerySeed(th, configuredSeeds[th.id])
             ELSE [th EXCEPT !.pc = "compute"])

\* SeedMaster::getSeed: policy_impl->getSeed(id) and ensureUnique
GetSeed_compute(t) ==
  LET th == threads.run[t]
      p == PolicyGetSeed(policy, nextOffset, th.id)
      sm1 == [SM EXCEPT !.k = p.k]
  IN  /\ th.pc = "compute"
      /\ ThreadStep(t, sm1,
           IF p.err # "none"
             THEN ThreadDone(th, InvalidSeed, p.err, "policy")
           ELSE IF /\ yieldsUniqueSeeds(policy)
                   /\ ~ensureUnique(th.id, p.seed, configuredSeeds)
             THEN ThreadDone(th, InvalidSeed, "LogicError", "ensureUnique")
           ELSE [th EXCEPT !.pc = "save", !.seed = p.seed])

\* SeedMaster::getSeed: configuredSeeds[id] = seed, currentSeeds, return
GetSeed_save(t) ==
  LET th == threads.run[t]
  IN  /\ th.pc = "save"
      /\ ThreadStep(t,
           [SM EXCEPT !.conf[th.id] = th.seed,
                      !.cur = recordCurrent(currentSeeds, th.id, th.seed)],
           AfterQuerySeed(th, th.seed))

\* registerEngineID: return seedEngine(id)
GetSeed_seedEngine(t) ==
  LET th == threads.run[t]
      r == seedEngine(policy, SM, th.id)
  IN  /\ th.pc = "seedEngine"
      /\ ThreadStep(t, r.sm, ThreadDone(th, r.ret, r.err, r.site))

\* the calls have returned
LeaveGetSeed ==
  /\ AllDone
  /\ threads' = NoThreads
  /\ UNCHANGED << policy, smVars, artVars, lastCall, histVars, before >>

NextThreads ==
  \/ Quiescent /\ RegisterEngine({42})
  \/ Quiescent /\ preModuleConstruction
  \/ Quiescent /\ postModuleConstruction
  \/ EnterGetSeed
  \/ \E t \in ThreadNames : GetSeed_hasEngine(t)
  \/ \E t \in ThreadNames : GetSeed_registerEngineIdAndSeeder(t)
  \/ \E t \in ThreadNames : GetSeed_find(t)
  \/ \E t \in ThreadNames : GetSeed_compute(t)
  \/ \E t \in ThreadNames : GetSeed_save(t)
  \/ \E t \in ThreadNames : GetSeed_seedEngine(t)
  \/ LeaveGetSeed

SpecThreads == Init /\ [][NextThreads]_vars

----------------------------------------------------------------------------
(* Construction of the policy from the configuration *)

MaxNesting == 2       \* initSeedPolicy tables inside one another
MaxPolicyIndex == 7   \* values of the Policy enumerator tried, one too many

\* policyNames(): NURANDOM_SEED_SERVICE_POLICIES, in the order of the
\* Policy enumerator, whose values are the indices from 0
policyNames ==
  << "unDefined", "autoIncrement", "linearMapping", "preDefinedOffset",
     "preDefinedSeed", "random", "perEvent" >>

unDefined == 0

PolicyValues == 0 .. MaxPolicyIndex
NameInputs ==
  { policyNames[i] : i \in 1 .. Len(policyNames) }
    \cup { "", "PerEvent", "autoincrement", "bogus" }

\* outcome of one of the functions below: the value it returns or the
\* category of the exception it throws
PolicyRet(value) == [value |-> value, err |-> "none"]
NameThrow(category) == [value |-> "", err |-> category]
PolicyThrow(category) == [value |-> unDefined, err |-> category]

\* rndm::details::policyName
policyName(policyValue) ==
  IF policyValue < Len(policyNames)
    THEN PolicyRet(policyNames[policyValue + 1])
    ELSE NameThrow("rndm::details::policyName")

\* std::find(nbegin, nend, policyName) and std::distance from the beginning
\* (the size of the list if the name is not found)
FindName(name) ==
  LET found == { i \in 1 .. Len(policyNames) : policyNames[i] = name }
  IN  IF found = {} THEN Len(policyNames)
      ELSE (CHOOSE i \in found : \A j \in found : i <= j) - 1

\* policyFromName that returns whatever enumerator the name matches
policyFromName_anyMatch(name) ==
  IF FindName(name) = Len(policyNames)
    THEN PolicyThrow("rndm::details::policyFromName")
    ELSE PolicyRet(FindName(name))

\* rndm::details::policyFromName
policyFromName(name) ==
  LET iter == FindName(name)
      found == IF iter = Len(policyNames) THEN unDefined ELSE iter
  IN  IF found # unDefined THEN PolicyRet(found)
      ELSE PolicyThrow("rndm::details::policyFromName")

\* PerEventPolicy::algoNames
algoNames == << "EventTimestamp_v1" >>
saDefault == algoNames[1]
AlgorithmInputs == { "default", "EventTimestamp_v1", "bogus" }

\* a parameter set with the configuration of a policy is the sequence of
\* its tables: the first element has the keys of the table itself, the rest
\* is its initSeedPolicy table (empty if the key is missing)
PolicyTable(name, algorithm) == [policy |-> name, algorithm |-> algorithm]
PolicyTables ==
  { PolicyTable(name, algorithm) :
      name \in NameInputs, algorithm \in AlgorithmInputs }
RECURSIVE NestedTables(_)
NestedTables(depth) ==
  IF depth = 0 THEN { << t >> : t \in PolicyTables }
  ELSE NestedTables(depth - 1)
         \cup { << t >> \o inner :
                  t \in PolicyTables, inner \in NestedTables(depth - 1) }

\* the configurations tried: only perEvent tables have an initSeedPolicy,
\* and only they have an algorithm
PolicyParameterSets ==
  { pset \in NestedTables(MaxNesting) :
      /\ \A i \in 1 .. Len(pset) - 1 : pset[i].policy = "perEvent"
      /\ \A i \in 1 .. Len(pset) :
           pset[i].policy # "perEvent" => pset[i].algorithm = "default" }

\* a policy object: the sequence of the policy and of the policies nested in
\* it; PolicyStruct_t travels with the enumerator
PolicyObject(name, algo) == [policy |-> name, algo |-> algo]
PolicyStruct(policyValue, ptr) ==
  [policy |-> policyValue, ptr |-> ptr, err |-> "none"]
PolicyStructThrow(category) ==
  [policy |-> unDefined, ptr |-> << >>, err |-> category]
NoPolicy == << >>

\* constructors of the policies without event seeds, given a configuration
\* with valid parameters
StandardPolicy(name) == << PolicyObject(name, "") >>

RECURSIVE makeRandomSeedPolicy(_)

\* PerEventPolicy::PerEventPolicy -> PerEventPolicy::configure
PerEventPolicy_configure(pset) ==
  LET algorithm_name == pset[1].algorithm
      algo ==
        IF algorithm_name = "default" THEN saDefault
        ELSE IF \E iAlgo \in 1 .. Len(algoNames) :
                  algoNames[iAlgo] = algorithm_name
          THEN algorithm_name
        ELSE "saUndefined"
      initSeedConfig == Tail(pset)
  IN  IF algo = "saUndefined" THEN PolicyStructThrow("Configuration")
      ELSE IF initSeedConfig # << >>
        THEN LET initSeedPolicy == makeRandomSeedPolicy(initSeedConfig)
             IN  IF initSeedPolicy.err # "none"
                   THEN PolicyStructThrow("PerEventPolicy")
                   ELSE PolicyStruct(FindName("perEvent"),
                          << PolicyObject("perEvent", algo) >>
                            \o initSeedPolicy.ptr)
      ELSE PolicyStruct(FindName("perEvent"),
                        << PolicyObject("perEvent", algo) >>)

\* rndm::details::makeRandomSeedPolicy
makeRandomSeedPolicy(config) ==
  LET name == config[1].policy
      p == policyFromName(name)
  IN  IF p.err # "none" THEN PolicyStructThrow(p.err)
      ELSE IF p.value = unDefined \/ p.value >= Len(policyNames)
        THEN PolicyStructThrow("rndm::details::makeRandomSeedPolicy")
      ELSE IF policyNames[p.value + 1] = "perEvent"
        THEN PerEventPolicy_configure(config)
      ELSE PolicyStruct(p.value, StandardPolicy(policyNames[p.value + 1]))

\* the record of a call of one of these functions
PolicyCall(op, name, policyValue, config, retName, retPolicy, err) ==
  [op |-> op, name |-> name, policy |-> policyValue, config |-> config,
   retName |-> retName, ret |-> retPolicy, err |-> err]

\* nothing constructed yet
InitPolicy ==
  /\ policy = NoPolicy
  /\ engineData = [id \in Ids |-> NoEngine]
  /\ configuredSeeds = [id \in Ids |-> NoSeed]
  /\ knownEventSeeds = [id \in Ids |-> NoSeed]
  /\ currentSeeds = [id \in Ids |-> NoSeed]
  /\ nextOffset = 0
  /\ engineSeed = [id \in Ids |-> NoSeed]
  /\ delivered = NoDelivery
  /\ phase = DefaultPhase
  /\ curModule = ""
  /\ curEvent = NoEvent
  /\ fw = "configuration"
  /\ constructed = {}
  /\ nEvents = 0
  /\ lastCall = PolicyCall("", "", unDefined, << >>, "", unDefined, "none")
  /\ threads = NoThreads
  /\ firstSeed = [id \in Ids |-> Unobserved]
  /\ declaration = [id \in Ids |-> Unobserved]
  /\ before = Before

\* SeedMaster::SeedMaster: policy_impl is the policy made from the
\* parameter set; if making it throws, there is no SeedMaster
SeedMaster_SeedMaster ==
  \E pSet \in PolicyParameterSets :
    LET made == makeRandomSeedPolicy(pSet)
    IN  /\ policy' = IF made.err = "none" THEN made.ptr ELSE NoPolicy
        /\ lastCall' = PolicyCall("SeedMaster", "", unDefined, pSet,
                                  "", made.policy, made.err)
        /\ UNCHANGED << smVars, artVars, histVars, threads, before >>

PolicyName ==
  \E policyValue \in PolicyValues :
    /\ lastCall' = PolicyCall("policyName", "", policyValue, << >>,
                              policyName(policyValue).value, unDefined,
                              policyName(policyValue).err)
    /\ UNCHANGED << policy, smVars, artVars, histVars, threads, before >>

\* the name is any string, among them the name policyName has just returned
PolicyFromName ==
  \E name \in NameInputs :
    /\ lastCall' = PolicyCall("policyFromName", name, unDefined, << >>,
                              "", policyFromName(name).value,
                              policyFromName(name).err)
    /\ UNCHANGED << policy, smVars, artVars, histVars, threads, before >>

NextPolicy ==
  \/ SeedMaster_SeedMaster
  \/ PolicyName
  \/ PolicyFromName

SpecPolicy == InitPolicy /\ [][NextPolicy]_vars

----------------------------------------------------------------------------
(* Properties *)

RegistrationOps == {"registerEngine", "declareEngine", "registerAndSeedEngine"}

\* the phase in which an engine with this ID may be registered
RegistrationPhase(id) ==
  IF isGlobal(id) THEN "inServiceConstructor" ELSE "inModuleConstructor"

\* The claims about one operation are stated on the state it leaves, in which
\* lastCall is the operation and its outcome and before is the state the
\* operation found.
WasPresent(id) == before.engineData[id].present
WasFrozen(id) == WasPresent(id) /\ ~before.engineData[id].autoseed
WasAutoSeeded(id) ==
  /\ WasPresent(id)
  /\ before.engineData[id].seeder
  /\ before.engineData[id].autoseed

\* C1: a registerEngine / declareEngine / registerAndSeedEngine call for an
\* EngineId that is already in the engine table fails with a LogicError and
\* leaves the engine table (with its frozen flags) and the configured,
\* current and knownEvent caches as they were.
C1_DuplicateRegistration ==
  (lastCall.op \in RegistrationOps /\ WasPresent(lastCall.id))
    => /\ lastCall.err = "LogicError"
       /\ engineData = before.engineData
       /\ configuredSeeds = before.configuredSeeds
       /\ currentSeeds = before.currentSeeds
       /\ knownEventSeeds = before.knownEventSeeds

\* a duplicate registration was refused in the phase where registration is
\* legal, for an engine that had been declared lazily or registered
C1_Witness ==
  /\ lastCall.op \in RegistrationOps
  /\ lastCall.site = "registerEngineIdAndSeeder"
  /\ phase = RegistrationPhase(lastCall.id)
  /\ engineData[lastCall.id].present

\* C2: an engine record is created only in the constructor phase matching
\* the engine (inModuleConstructor for a module engine, inServiceConstructor
\* for a global one); a registration call in any other phase fails with a
\* LogicError and leaves the engine table unchanged.
C2_RegistrationPhase ==
  /\ \A id \in Ids :
       (~WasPresent(id) /\ engineData[id].present)
         => before.phase = RegistrationPhase(id)
  /\ (lastCall.op \in RegistrationOps
        /\ before.phase # RegistrationPhase(lastCall.id))
       => /\ lastCall.err = "LogicError"
          /\ engineData = before.engineData

\* a registration attempted while a module processes an event was refused
\* by ensureValidState, with engines already registered
C2_Witness ==
  /\ lastCall.op \in RegistrationOps
  /\ lastCall.site = "ensureValidState"
  /\ phase = "inModuleEvent"
  /\ Registered(engineData) # {}

Frozen(id) == engineData[id].present /\ ~engineData[id].autoseed

\* a cache entry that holds a seed
HoldsSeed(seeds, id) == seeds[id] # NoSeed /\ isSeedValid(seeds[id])

\* C3: once an engine is frozen with seed s, every later operation leaves
\* configured[id] = s and getCurrentSeed(id) = s, and every reseed(id)
\* returns InvalidSeed.
C3_FrozenSeedIsKept ==
  [][ \A id \in Ids :
        Frozen(id)
          => /\ configuredSeeds'[id] = configuredSeeds[id]
             /\ getSeedFromMap(currentSeeds', id) = configuredSeeds[id]
             /\ (lastCall'.op = "reseed" /\ lastCall'.id = id)
                  => lastCall'.ret = InvalidSeed ]_vars

\* C4: under a policy with yieldsUniqueSeeds, no two distinct EngineIds hold
\* the same seed in the configured cache, nor in the knownEvent cache.
C4_UniqueSeeds ==
  yieldsUniqueSeeds(policy)
    => \A a, b \in Ids :
         a # b
           => /\ ~(HoldsSeed(configuredSeeds, a)
                     /\ configuredSeeds[a] = configuredSeeds[b])
              /\ ~(HoldsSeed(knownEventSeeds, a)
                     /\ knownEventSeeds[a] = knownEventSeeds[b])

\* a registerEngine call with a seeder that was given a valid seed override
\* and returned
OverriddenRegisterEngine(call) ==
  /\ call.op = "registerEngine"
  /\ call.err = "none"
  /\ call.seed # NoSeed
  /\ isSeedValid(call.seed)

\* C5: when registerEngine(seeder, instance, override) returns for a valid
\* override s, the engine is frozen, configured[id] = current[id] = s, the
\* call returned s, and the seeder last received s (the engine holds s).
C5_OverrideReachesEngine ==
  [][ OverriddenRegisterEngine(lastCall')
        => LET id == lastCall'.id
               s == lastCall'.seed
           IN  /\ ~engineData'[id].autoseed
               /\ configuredSeeds'[id] = s
               /\ currentSeeds'[id] = s
               /\ lastCall'.ret = s
               /\ delivered'[id] = s
               /\ engineSeed'[id] = s ]_vars

\* C6: when registerEngine with a seeder returns, the seeder has been
\* invoked for the engine with the value the call returns.
C6_SeederGetsReturnedSeed ==
  [][ (lastCall'.op = "registerEngine" /\ lastCall'.err = "none")
        => delivered'[lastCall'.id] = lastCall'.ret ]_vars

\* C7: a registration given a valid seed override does not consult the
\* policy: the state of the policy is unchanged, and the call fails neither
\* with an error of the policy nor with a uniqueness error.
C7_OverrideSkipsPolicy ==
  [][ (lastCall'.op \in RegistrationOps
         /\ lastCall'.seed # NoSeed /\ isSeedValid(lastCall'.seed))
        => /\ nextOffset' = nextOffset
           /\ lastCall'.site \notin {"policy", "ensureUnique"} ]_vars

\* the candidate names, by position, that are present in the parameter set
PresentCandidates(pset, pnames) ==
  { i \in 1..Len(pnames) : pset[pnames[i]] # NoSeed }

\* the value of the first present candidate, NoSeed if there is none
FirstPresentValue(pset, pnames) ==
  LET present == PresentCandidates(pset, pnames)
  IN  IF present = {} THEN NoSeed
      ELSE pset[pnames[CHOOSE i \in present : \A j \in present : i <= j]]

\* the seed the policy gives to an engine that has no configured seed yet
PolicySeed(id) == PolicyGetSeed(policy, nextOffset, id).seed

\* the seed the policy had for an engine when the last operation was called
PolicySeedBefore(id) == PolicyGetSeed(policy, before.nextOffset, id).seed

\* C8: a registration reading the override from a parameter set with a list
\* of candidate names takes the value of the first candidate that is
\* present; with no candidate present there is no override; an override of
\* InvalidSeed counts as none: the seed is the one of the policy and the
\* engine is not frozen.
C8_OverrideResolution ==
  (lastCall.overload = "pset")
    => LET id == lastCall.id
           override == FirstPresentValue(lastCall.pset, lastCall.pnames)
       IN  /\ lastCall.seed = override
           /\ IF override # NoSeed /\ isSeedValid(override)
                THEN /\ ~engineData[id].autoseed
                     /\ configuredSeeds[id] = override
                     /\ lastCall.ret = override
                ELSE /\ engineData[id].autoseed
                     /\ configuredSeeds[id] = PolicySeedBefore(id)
                     /\ lastCall.ret = PolicySeedBefore(id)

\* the second candidate was listed first and gave the override, although the
\* other candidate is present too
C8_Witness ==
  /\ lastCall.overload = "pset"
  /\ lastCall.pnames = << "MySeed", "Seed" >>
  /\ lastCall.pset = PSet(0, 7)
  /\ Frozen(lastCall.id)
  /\ configuredSeeds[lastCall.id] = 7

\* a registration of engine ("M", "") with the candidates "Seed", "MySeed"
\* that returned
RegisteredFrom(call, pset) ==
  /\ call.overload = "pset"
  /\ call.id = EngineId("M", "")
  /\ call.pnames = << "Seed", "MySeed" >>
  /\ call.pset = pset

\* C9 as stated: with { Seed: 0, MySeed: 7 } the zero on Seed is skipped and
\* getCurrentSeed(id) = 7, frozen; with { Seed: 42 } getCurrentSeed(id) = 42
\* and the engine is frozen.
C9_ZeroSkipsToNextCandidate ==
  [][ /\ RegisteredFrom(lastCall', PSet(0, 7))
        => /\ getSeedFromMap(currentSeeds', EngineId("M", "")) = 7
           /\ ~engineData'[EngineId("M", "")].autoseed
      /\ RegisteredFrom(lastCall', PSet(42, NoSeed))
        => /\ getSeedFromMap(currentSeeds', EngineId("M", "")) = 42
           /\ ~engineData'[EngineId("M", "")].autoseed ]_vars

\* C9, amended: with { Seed: 0, MySeed: 7 } the zero on Seed ends the search:
\* MySeed is not looked at, the engine is not frozen and getCurrentSeed(id)
\* is the seed of the policy; with { Seed: 42 } getCurrentSeed(id) = 42 and
\* the engine is frozen.
C9_ZeroMeansNoOverride ==
  /\ RegisteredFrom(lastCall, PSet(0, 7))
       => /\ getSeedFromMap(currentSeeds, EngineId("M", ""))
               = PolicySeedBefore(EngineId("M", ""))
          /\ engineData[EngineId("M", "")].autoseed
  /\ RegisteredFrom(lastCall, PSet(42, NoSeed))
       => /\ getSeedFromMap(currentSeeds, EngineId("M", "")) = 42
          /\ ~engineData[EngineId("M", "")].autoseed

\* engine ("M", "") was registered from { Seed: 0, MySeed: 7 } under
\* autoIncrement and holds the seed of the policy, not 7
C9_Witness ==
  /\ RegisteredFrom(lastCall, PSet(0, 7))
  /\ policy.policy = "autoIncrement"
  /\ getCurrentSeed(EngineId("M", "")) >= policy.baseSeed
  /\ ~Frozen(EngineId("M", ""))

\* a registerAndSeedEngine call that was given a present SeedAtom and returned
SeededFromAtom(call) ==
  /\ call.op = "registerAndSeedEngine"
  /\ call.err = "none"
  /\ call.seed # NoSeed

RepeatedQuery(call) ==
  /\ call.op \in SeedQueries
  /\ call.err = "none"
  /\ firstSeed[call.id].op # ""

\* C11: getSeed(id) is idempotent: whatever operations come in between
\* (registrations, freezeSeed of this or of other engines, events, reseeds),
\* every later getSeed(id) returns the value the first getSeed(id) returned.
C11_GetSeedIdempotent ==
  [][ RepeatedQuery(lastCall')
        => lastCall'.ret = firstSeed[lastCall'.id].ret ]_vars

\* C11 amended: a later getSeed(id) returns the value of the first one as
\* long as the seed of the engine has not been frozen; once freezeSeed(id, s)
\* has been called it returns the frozen seed s (the configured seed).
C11_GetSeedIdempotentUntilFrozen ==
  [][ RepeatedQuery(lastCall')
        => LET id == lastCall'.id
           IN  lastCall'.ret = IF Frozen(id) THEN configuredSeeds[id]
                               ELSE firstSeed[id].ret ]_vars

\* a second getSeed(id) of an engine that is not frozen returned, after
\* the engine was seeded for an event and another engine had its seed frozen
C11_Witness ==
  /\ lastCall.op = "getSeed"
  /\ lastCall.err = "none"
  /\ firstSeed[lastCall.id].op # ""
  /\ ~Frozen(lastCall.id)
  /\ lastCall.ret = firstSeed[lastCall.id].ret
  /\ isSeedValid(knownEventSeeds[lastCall.id])
  /\ \E other \in Ids \ {lastCall.id} : Frozen(other)

\* a seed query (getSeed, getGlobalSeed) for an engine that has a record
QueryOfRegistered(call) ==
  /\ call.op \in SeedQueries
  /\ engineData[call.id].present

SeedingOps == RegistrationOps \cup SeedQueries

QueryOfUnregistered(call) ==
  /\ call.op \in SeedQueries
  /\ ~engineData[call.id].present
  /\ phase # RegistrationPhase(call.id)

\* C13: a seed query for an engine that is not registered, made in a phase
\* other than the constructor phase matching the engine (module constructor
\* for a module engine, service constructor for a global one), fails with a
\* LogicError, registers no engine and caches no seed.
C13_QueryOfUnregisteredEngine ==
  (/\ lastCall.op \in SeedQueries
   /\ ~WasPresent(lastCall.id)
   /\ before.phase # RegistrationPhase(lastCall.id))
    => /\ lastCall.err = "LogicError"
       /\ engineData = before.engineData
       /\ configuredSeeds = before.configuredSeeds
       /\ knownEventSeeds = before.knownEventSeeds
       /\ currentSeeds = before.currentSeeds
       /\ nextOffset = before.nextOffset
       /\ engineSeed = before.engineSeed

\* the seed of an engine nobody registered was queried while a module was
\* beginning a run, and the query was refused
C13_Witness ==
  /\ lastCall.op = "getSeed"
  /\ lastCall.err = "LogicError"
  /\ lastCall.site = "ensureValidState"
  /\ phase = "inModuleBeginRun"
  /\ ~engineData[lastCall.id].present

\* the record of the engine was created by a getSeed that returned
LazilyDeclared(id) == declaration[id].op = "getSeed"

\* C14: getSeed for an engine without record during module construction
\* creates a record with no seeder, not frozen, and returns the seed of the
\* policy; from then on every registerEngine, declareEngine and
\* registerAndSeedEngine for that engine fails with a LogicError, while
\* exactly one defineEngine(seeder) succeeds: the first one made in the
\* constructor attaches the seeder, which stays, and any later one fails.
C14_LazyDeclaration ==
  LET id == lastCall.id
      op == lastCall.op
  IN  /\ (/\ op = "getSeed" /\ lastCall.err = "none"
          /\ ~WasPresent(id)
          /\ before.phase = "inModuleConstructor")
          => /\ engineData[id] = EngineInfo(FALSE, TRUE)
             /\ lastCall.ret = PolicySeedBefore(id)
             /\ declaration[id].op = "getSeed"
      /\ \A e \in Ids :
            (before.declaration[e].op = "getSeed" /\ ~isGlobal(e))
              => /\ WasPresent(e) /\ engineData[e].present
                 /\ before.engineData[e].seeder => engineData[e].seeder
                 /\ (op \in RegistrationOps /\ id = e)
                      => lastCall.err = "LogicError"
                 /\ (op = "defineEngine" /\ id = e)
                      => IF \/ before.engineData[e].seeder
                            \/ before.phase # "inModuleConstructor"
                           THEN lastCall.err = "LogicError"
                           ELSE /\ lastCall.err = "none"
                                /\ engineData[e].seeder

\* an engine declared by getSeed in the constructor of its module has been
\* defined, and a second defineEngine for it has just been refused
C14_Witness ==
  /\ lastCall.op = "defineEngine"
  /\ lastCall.err = "LogicError"
  /\ lastCall.site = "defineEngineID:redefined"
  /\ LazilyDeclared(lastCall.id)
  /\ ~isGlobal(lastCall.id)
  /\ engineData[lastCall.id].seeder

\* C15: defineEngine for an engine that has no record fails with a
\* LogicError, and so does defineEngine for an engine that has a seeder, in
\* both cases leaving engine table and caches unchanged; for a declared
\* engine without seeder, in the module constructor, it attaches the seeder
\* and pushes the current seed of the engine into it.
C15_DefineEngine ==
  [][ lastCall'.op = "defineEngine"
        => LET id == lastCall'.id
           IN  /\ (~engineData[id].present \/ engineData[id].seeder)
                   => /\ lastCall'.err = "LogicError"
                      /\ UNCHANGED << engineData, configuredSeeds,
                                      knownEventSeeds, currentSeeds >>
               /\ (/\ engineData[id].present /\ ~engineData[id].seeder
                   /\ phase = "inModuleConstructor"
                   /\ isSeedValid(getCurrentSeed(id)))
                   => /\ engineData'[id].seeder
                      /\ delivered'[id] = getCurrentSeed(id) ]_vars

\* C17: defineEngine returns the seed assigned to the engine: for an engine
\* declared by getSeed, by declareEngine or by declareEngine with a seed
\* override, the value defineEngine returns is the value that the
\* declaration call returned for the engine.
C17_DefineReturnsDeclaredSeed ==
  [][ (/\ lastCall'.op = "defineEngine"
       /\ lastCall'.err = "none"
       /\ declaration[lastCall'.id].op \in DeclarationOps)
        => lastCall'.ret = declaration[lastCall'.id].ret ]_vars

\* what a sequence of two calls leaves: the outcome of the second call, or
\* of the first one if it threw
Then(first, second) == IF first.err # "none" THEN first ELSE second

\* the two outcomes agree on the engine: same record, same configured and
\* current seed, and the seeder last received the same value
SameEngine(a, b, id) ==
  /\ a.sm.ed[id] = b.sm.ed[id]
  /\ a.sm.conf[id] = b.sm.conf[id]
  /\ a.sm.cur[id] = b.sm.cur[id]
  /\ a.sm.eng[id] = b.sm.eng[id]

\* C16: from any state in a module constructor, declareEngine(instance
\* [, override]) followed by defineEngine(seeder, instance), and getSeed(
\* instance) followed by defineEngine(seeder, instance), end as the single
\* call registerEngine(seeder, instance [, override]) does: same engine
\* record, same configured and current seed, same value last received by
\* the seeder.
C16_DeclareDefineIsRegister ==
  phase = "inModuleConstructor"
    => \A inst \in Instances(curModule), seed \in OptSeeds({42}) :
         LET id == qualify_engine_label(inst)
             declared == NRS_registerEngine(policy, SM, phase, id, FALSE, seed)
             queried == NRS_getSeed(policy, SM, phase, id)
             single == NRS_registerEngine(policy, SM, phase, id, TRUE, seed)
             plain == NRS_registerEngine(policy, SM, phase, id, TRUE, NoSeed)
         IN  ~engineData[id].present
               => /\ LET both == Then(declared,
                                      defineEngineID(policy, declared.sm,
                                                     phase, id, TRUE))
                     IN  (both.err = "none" /\ single.err = "none")
                           => SameEngine(both, single, id)
                  /\ LET both == Then(queried,
                                      defineEngineID(policy, queried.sm,
                                                     phase, id, TRUE))
                     IN  (both.err = "none" /\ plain.err = "none")
                           => SameEngine(both, plain, id)

\* C18: global engines follow the same protocol as module engines: in the
\* service constructor, declareEngine for a global engine followed by
\* defineEngine(seeder) for that engine succeeds and attaches the seeder.
C18_GlobalDeclareDefine ==
  [][ LET id == lastCall'.id
      IN  (/\ lastCall'.op = "defineEngine"
           /\ phase = "inServiceConstructor"
           /\ isGlobal(id)
           /\ declaration[id].op = "declareEngine"
           /\ ~engineData[id].seeder)
            => /\ lastCall'.err = "none"
               /\ engineData'[id].seeder ]_vars

\* an engine the service reseeds by itself: it has a seeder, and its seed
\* is not frozen
AutoSeeded(id) ==
  engineData[id].present /\ engineData[id].seeder /\ engineData[id].autoseed

\* the seed of the policy for an engine in an event
EventSeed(id, event) == PolicyGetEventSeed(policy, id, event).seed

\* C19: in the pre-event callback of every event, after the per-event cache
\* has been cleared, every global engine that has a seeder and is not frozen
\* is reseeded with its seed for that event; this is done before any
\* pre-module callback of the event, and a pre-module callback never
\* reseeds a global engine.
C19_GlobalReseedBeforeModules ==
  \A g \in Ids :
    (isGlobal(g) /\ WasAutoSeeded(g))
      => /\ (lastCall.op = "preProcessEvent" /\ lastCall.err = "none")
             => /\ knownEventSeeds[g] = EventSeed(g, curEvent)
                /\ isSeedValid(EventSeed(g, curEvent))
                     => /\ delivered[g] = EventSeed(g, curEvent)
                        /\ engineSeed[g] = EventSeed(g, curEvent)
         /\ lastCall.op = "preModule"
             => /\ before.knownEventSeeds[g] = EventSeed(g, before.curEvent)
                /\ delivered[g] = NoSeed
                /\ engineSeed[g] = before.engineSeed[g]
                /\ knownEventSeeds[g] = before.knownEventSeeds[g]

\* the second event of the job has begun and a global engine was reseeded
\* with its seed for that event
C19_Witness ==
  /\ lastCall.op = "preProcessEvent"
  /\ lastCall.err = "none"
  /\ nEvents = 2
  /\ \E g \in Ids :
       /\ isGlobal(g) /\ AutoSeeded(g)
       /\ isSeedValid(delivered[g])
       /\ delivered[g] = EventSeed(g, curEvent)
       /\ delivered[g] # EventSeed(g, EventData(1, TRUE))

C21_FrozenNeverReseeded ==
  \A id \in Ids :
    WasFrozen(id)
      => /\ delivered[id] = NoSeed
         /\ currentSeeds[id] = before.currentSeeds[id]
         /\ engineSeed[id] = before.engineSeed[id]
         /\ Frozen(id)

\* under perEvent, the pre-module callback of the module of a frozen engine
\* with a seeder has run for an event with a valid timestamp
C21_Witness ==
  /\ lastCall.op = "preModule"
  /\ lastCall.err = "none"
  /\ policy.policy = "perEvent"
  /\ curEvent.isTimeValid
  /\ \E id \in Ids :
       /\ id.moduleLabel = curModule
       /\ Frozen(id) /\ engineData[id].seeder
       /\ currentSeeds[id] = configuredSeeds[id]

CallbackOps ==
  { "preModuleConstruction", "postModuleConstruction", "preModuleBeginRun",
    "postModuleBeginRun", "preProcessEvent", "preModule", "postModule",
    "postProcessEvent", "preModuleEndJob", "postModuleEndJob", "postEndJob" }

\* C22: under a policy that provides no per-event seeds, event processing
\* never reseeds: no callback invokes any seeder or changes any current seed
\* or the seed an engine holds, and no callback fails.
C22_NoReseedWithoutEventSeeds ==
  (policy.policy # "perEvent" /\ lastCall.op \in CallbackOps)
    => /\ delivered = NoDelivery
       /\ \A id \in Ids :
            getSeedFromMap(currentSeeds, id)
              = getSeedFromMap(before.currentSeeds, id)
       /\ engineSeed = before.engineSeed
       /\ configuredSeeds = before.configuredSeeds
       /\ lastCall.err = "none"

\* the pre-module callback of a module has run, under a policy without
\* event seeds, for an engine of the module that has a seeder, is not frozen
\* and holds the seed of the policy
C22_Witness ==
  /\ lastCall.op = "preModule"
  /\ policy.policy # "perEvent"
  /\ \E id \in Ids :
       /\ id.moduleLabel = curModule
       /\ AutoSeeded(id)
       /\ HoldsSeed(engineSeed, id)
       /\ engineSeed[id] = currentSeeds[id]

\* the framework is processing an event
ProcessingEvent == fw \in {"event", "moduleEvent"}

NoKnownEventSeeds == \A id \in Ids : knownEventSeeds[id] = NoSeed

\* C23: the cache of the event seeds is empty in every state in which no
\* event is being processed (before the first event, between the post-event
\* callback of an event and the pre-event callback of the next, at end of
\* job).
C23_KnownEventEmptyOutsideEvent ==
  ~ProcessingEvent /\ fw # "aborted" => NoKnownEventSeeds

\* C23, amended: the cache is empty until the first event begins, and while
\* an event is processed it holds only seeds of that event: the pre-event
\* callback forgets the seeds of the event before.
C23_KnownEventOfCurrentEvent ==
  /\ nEvents = 0 => NoKnownEventSeeds
  /\ ProcessingEvent
       => \A id \in Ids :
            knownEventSeeds[id] # NoSeed
              => knownEventSeeds[id] = EventSeed(id, curEvent)

\* the second event is processed and the cache holds for an engine the seed
\* of this event, which is not the seed the engine had in the first event
C23_Witness ==
  /\ ProcessingEvent
  /\ nEvents = 2
  /\ \E id \in Ids :
       /\ HoldsSeed(knownEventSeeds, id)
       /\ knownEventSeeds[id] # EventSeed(id, EventData(1, TRUE))

MasterRegistrations == {"registerSeeder", "registerNewSeeder"}
MasterQueries == {"getSeed", "getEventSeed"}
MasterSeedings ==
  MasterQueries \cup {"freezeSeed", "reseed", "reseedEvent"}

\* the call that has just returned was op(id), for one of the given ops
Returned(call, ops, id) ==
  call.op \in ops /\ call.id = id /\ call.err = "none"

HasCurrent(cur, id) == cur[id] # NoSeed

\* C24: currentSeeds has an entry for an engine (possibly InvalidSeed) if
\* and only if the engine was ever registered (registerSeeder,
\* registerNewSeeder) or seed-queried (getSeed, getEventSeed): every
\* registered engine has an entry, every query that returns leaves one,
\* entries are never removed, and an entry appears only for an engine that
\* is registered or is being queried.
C24_CurrentIffRegisteredOrQueried ==
  [][ \A id \in Ids :
        /\ engineData'[id].present => HasCurrent(currentSeeds', id)
        /\ Returned(lastCall', MasterQueries, id)
             => HasCurrent(currentSeeds', id)
        /\ HasCurrent(currentSeeds, id) => HasCurrent(currentSeeds', id)
        /\ ~HasCurrent(currentSeeds, id) /\ HasCurrent(currentSeeds', id)
             => \/ engineData'[id].present
                \/ Returned(lastCall', MasterQueries, id) ]_vars

\* C24, amended: currentSeeds has an entry for an engine if and only if a
\* seed was ever computed or set for it: getSeed, getEventSeed, freezeSeed,
\* reseed or reseedEvent returned for it. Registering a seeder creates no
\* entry.
C24_CurrentIffSeedComputed ==
  [][ \A id \in Ids :
        /\ Returned(lastCall', MasterSeedings, id)
             => HasCurrent(currentSeeds', id)
        /\ HasCurrent(currentSeeds, id) => HasCurrent(currentSeeds', id)
        /\ ~HasCurrent(currentSeeds, id) /\ HasCurrent(currentSeeds', id)
             => Returned(lastCall', MasterSeedings, id)
        /\ lastCall'.op \in MasterRegistrations
             => currentSeeds' = currentSeeds ]_vars

\* one engine is registered and has no entry, another was queried without
\* being registered and has an entry holding InvalidSeed
C24_Witness ==
  \E id, other \in Ids :
    /\ engineData[id].present /\ ~HasCurrent(currentSeeds, id)
    /\ ~engineData[other].present
    /\ currentSeeds[other] = InvalidSeed

\* the seed the initial policy of a per-event policy gives for an engine
InitPolicySeed(id) ==
  StandardPolicySeed(policy, policy.init, nextOffset, id).seed

\* C25: under perEvent the seed a query returns for an engine that has no
\* seed override is the seed of the nested initSeedPolicy if there is one
\* (computed at the first request, kept afterwards) and InvalidSeed if
\* there is none; without initSeedPolicy no registration, declaration or
\* query invokes a seeder.
C25_PerEventInitSeed ==
  policy.policy = "perEvent"
    => /\ \A id \in Ids :
            Returned(lastCall, SeedQueries, id) /\ ~Frozen(id)
              => lastCall.ret =
                   IF policy.init = "none" THEN InvalidSeed
                   ELSE IF before.configuredSeeds[id] = NoSeed
                     THEN StandardPolicySeed(policy, policy.init,
                                             before.nextOffset, id).seed
                   ELSE before.configuredSeeds[id]
       /\ policy.init = "none" /\ lastCall.op \notin CallbackOps
            => delivered = NoDelivery

\* under perEvent with an initial policy, the second engine asking for a
\* seed gets the second seed of the initial policy
C25_Witness ==
  /\ policy.policy = "perEvent"
  /\ policy.init = "autoIncrement"
  /\ lastCall.op = "getSeed"
  /\ lastCall.err = "none"
  /\ lastCall.ret = policy.baseSeed + 1
  /\ configuredSeeds[lastCall.id] = lastCall.ret

\* the SeedMaster constructor has just been given a perEvent configuration
\* whose initSeedPolicy table names perEvent, at some depth
NestedPerEvent(call) ==
  /\ call.op = "SeedMaster"
  /\ \E i \in 2 .. Len(call.config) : call.config[i].policy = "perEvent"

\* C26: constructing a perEvent policy whose initSeedPolicy names perEvent
\* fails with a configuration error, so that in a constructed policy
\* perEvent is never nested in perEvent.
C26_NestedPerEventRefused ==
  /\ NestedPerEvent(lastCall) => lastCall.err # "none"
  /\ \A i \in 2 .. Len(policy) : policy[i].policy # "perEvent"

\* the names of the six policy kinds
PolicyKinds == 1 .. Len(policyNames) - 1

\* C29: policyFromName(policyName(p)) = p for each of the six policy kinds
\* p; policyFromName fails for "unDefined" and for every string that is
\* not the name of a policy, and never returns unDefined.
C29_PolicyNameRoundTrip ==
  [][ /\ lastCall'.op = "policyName" /\ lastCall'.policy \in PolicyKinds
           => lastCall'.err = "none"
      /\ ( /\ lastCall.op = "policyName" /\ lastCall.policy \in PolicyKinds
           /\ lastCall'.op = "policyFromName"
           /\ lastCall'.name = lastCall.retName )
           => lastCall'.err = "none" /\ lastCall'.ret = lastCall.policy
      /\ lastCall'.op = "policyFromName"
           => IF lastCall'.name
                   \in { policyNames[p + 1] : p \in PolicyKinds }
                THEN lastCall'.err = "none" /\ lastCall'.ret # unDefined
                ELSE lastCall'.err # "none" ]_vars

\* policyFromName has returned perEvent for the name policyName had given
\* for it, and it is the last enumerator
C29_Witness ==
  /\ lastCall.op = "policyFromName"
  /\ lastCall.err = "none"
  /\ lastCall.name = policyName(lastCall.ret).value
  /\ lastCall.name = "perEvent"
  /\ lastCall.ret = Len(policyNames) - 1

\* C27: per-event seeds are deterministic: under perEvent, getEventSeed for
\* an engine and an event with valid timestamp returns the seed the policy
\* computes from the engine ID and the event data alone, whatever was
\* registered or requested before.
C27_EventSeedDeterministic ==
  [][ \A id \in Ids :
        Returned(lastCall', {"getEventSeed"}, id) /\ curEvent'.isTimeValid
          => lastCall'.ret = EventSeed(id, curEvent') ]_vars

\* C27, amended: the first getEventSeed for an engine after onNewEvent
\* returns the seed the policy computes from the engine ID and the event
\* data alone; every later one for that engine, until the next onNewEvent,
\* returns that first seed, whatever event data it is given.
C27_EventSeedOfFirstRequest ==
  [][ \A id \in Ids :
        Returned(lastCall', {"getEventSeed"}, id)
          => /\ lastCall'.ret =
                  IF knownEventSeeds[id] = NoSeed
                    THEN EventSeed(id, curEvent')
                    ELSE knownEventSeeds[id]
             /\ knownEventSeeds'[id] = lastCall'.ret ]_vars

\* the seed of the second event was returned for an engine, and it is not
\* the seed of the first event; the other engine is registered and has its
\* own, different, seed for the event
C27_Witness ==
  /\ lastCall.op = "getEventSeed"
  /\ lastCall.err = "none"
  /\ curEvent = EventData(2, TRUE)
  /\ lastCall.ret = EventSeed(lastCall.id, curEvent)
  /\ lastCall.ret # EventSeed(lastCall.id, EventData(1, TRUE))
  /\ \E other \in Ids \ {lastCall.id} :
       /\ engineData[other].present
       /\ HoldsSeed(knownEventSeeds, other)
       /\ knownEventSeeds[other] # lastCall.ret

\* the call leaves the caches, the engines and the seeders alone
NothingWritten ==
  /\ knownEventSeeds' = knownEventSeeds
  /\ currentSeeds' = currentSeeds
  /\ configuredSeeds' = configuredSeeds
  /\ engineSeed' = engineSeed
  /\ delivered' = NoDelivery

\* C28: under perEvent with EventTimestamp_v1, asking for the event seed of
\* an event without valid timestamp fails with an invalid-input error
\* (InvalidNumber), writes nothing to the caches and invokes no seeder.
C28_InvalidTimeFails ==
  [][ lastCall'.op = "getEventSeed" /\ ~curEvent'.isTimeValid
        => lastCall'.err = "InvalidNumber" /\ NothingWritten ]_vars

\* C28, amended: the request fails in that way if it is the first request
\* for the engine since onNewEvent, be it getEventSeed or the reseedEvent
\* of a registered engine that is not frozen; after an earlier request for
\* the engine getEventSeed returns the seed of that request instead. A
\* request that fails writes nothing and invokes no seeder, and no request
\* for an event without valid timestamp writes to the caches.
C28_InvalidTimeFailsOnFirstRequest ==
  [][ \A id \in Ids :
        /\ lastCall'.op \in {"getEventSeed", "reseedEvent"}
        /\ lastCall'.id = id
        /\ ~curEvent'.isTimeValid
        => /\ /\ knownEventSeeds[id] = NoSeed
              /\ lastCall'.op = "reseedEvent"
                   => engineData[id].present /\ ~Frozen(id)
              => lastCall'.err = "InvalidNumber"
           /\ lastCall'.op = "getEventSeed" /\ knownEventSeeds[id] # NoSeed
              => lastCall'.err = "none"
                   /\ lastCall'.ret = knownEventSeeds[id]
           /\ lastCall'.err = "InvalidNumber" => NothingWritten
           /\ knownEventSeeds' = knownEventSeeds
           /\ currentSeeds' = currentSeeds ]_vars

\* reseedEvent of a registered engine with a seeder, not frozen, has failed
\* for an event without valid timestamp, after the other engine got its
\* seed for an event
C28_Witness ==
  /\ lastCall.op = "reseedEvent"
  /\ lastCall.err = "InvalidNumber"
  /\ ~curEvent.isTimeValid
  /\ AutoSeeded(lastCall.id)
  /\ knownEventSeeds[lastCall.id] = NoSeed
  /\ \E other \in Ids : HoldsSeed(knownEventSeeds, other)

\* no engine has a seed override
NoOverride == \A id \in Ids : ~Frozen(id)

\* the engines a seed was asked for
Seen(conf) == { id \in Ids : conf[id] # NoSeed }

\* C30: under autoIncrement with baseSeed b and without range check, the
\* k-th distinct engine a seed is asked for (counting from 0, in the order
\* of the first requests) gets b + k; asking again for an engine returns
\* the seed it has and does not advance k. k counts the engines the policy
\* was asked for; without seed overrides these are the engines seen so far.
C30_AutoIncrement ==
  [][ policy.policy = "autoIncrement" /\ ~policy.checkRange
        => /\ \A id \in Ids :
                Returned(lastCall', {"getSeed"}, id)
                  => IF id \in Seen(configuredSeeds)
                       THEN /\ lastCall'.ret = configuredSeeds[id]
                            /\ nextOffset' = nextOffset
                            /\ configuredSeeds' = configuredSeeds
                       ELSE /\ lastCall'.ret = policy.baseSeed + nextOffset
                            /\ configuredSeeds'[id] = lastCall'.ret
                            /\ nextOffset' = nextOffset + 1
           /\ NoOverride'
                => nextOffset' = Cardinality(Seen(configuredSeeds')) ]_vars

\* with baseSeed 100 the three engines got 100, 101 and 102, and the first
\* of them, asked again, got 100 again
C30_Witness ==
  /\ policy.policy = "autoIncrement"
  /\ policy.baseSeed = 100
  /\ NoOverride
  /\ configuredSeeds[EngineId("M", "")] = 100
  /\ configuredSeeds[EngineId("N", "x")] = 101
  /\ configuredSeeds[EngineId("N", "")] = 102
  /\ nextOffset = 3
  /\ lastCall.op = "getSeed"
  /\ lastCall.id = EngineId("M", "")
  /\ lastCall.ret = 100

\* the outcome of the calls of the threads in the call, made one after the
\* other in the given order from the state the threads found
RECURSIVE Sequential(_, _)
Sequential(order, sm) ==
  IF order = << >> THEN [sm |-> sm, out |-> << >>]
  ELSE LET r == NRS_getSeed(policy, sm, phase, threads.run[Head(order)].id)
           rest == Sequential(Tail(order), r.sm)
       IN  [sm |-> rest.sm,
            out |-> << [ret |-> r.ret, err |-> r.err] >> \o rest.out]

Orders ==
  { order \in UNION { [1 .. n -> Running] :
                       n \in 1 .. Cardinality(ThreadNames) } :
      /\ Len(order) = Cardinality(Running)
      /\ \A i, j \in 1 .. Len(order) : i # j => order[i] # order[j] }

SameMaster(a, b) ==
  /\ a.ed = b.ed /\ a.conf = b.conf /\ a.cur = b.cur
  /\ a.known = b.known /\ a.k = b.k /\ a.eng = b.eng

\* C31: getSeed(moduleLabel, instanceName) is thread-safe: when the calls of
\* two threads have returned, whatever their interleaving, each has the
\* outcome it has in one of the sequential orders of the two calls, and the
\* engine table and the caches are as that order leaves them.
C31_GetSeedThreadSafe ==
  AllDone
    => \E order \in Orders :
         LET seq == Sequential(order, threads.base)
         IN  /\ \A i \in 1 .. Len(order) :
                  /\ threads.run[order[i]].ret = seq.out[i].ret
                  /\ threads.run[order[i]].err = seq.out[i].err
             /\ SameMaster(SM, seq.sm)

\* the seeders have been invoked by the step exactly as in sm
SeedersInvokedAsIn(sm) == engineSeed' = sm.eng /\ delivered' = sm.dlv
NoSeederInvoked == engineSeed' = engineSeed /\ delivered' = NoDelivery

\* C32: SeedMaster::reseed(id) returns InvalidSeed and invokes no seeder
\* when id has no seeder or is frozen; otherwise it computes getSeed(id),
\* invokes the seeder of id with that value and returns that value.
C32_ReseedReturnsSeedUsed ==
  [][ \A id \in Ids :
        (lastCall'.op = "reseed" /\ lastCall'.id = id)
          => IF ~hasSeeder(SM, id) \/ Frozen(id)
               THEN /\ lastCall'.err = "none"
                    /\ lastCall'.ret = InvalidSeed
                    /\ NoSeederInvoked
               ELSE LET g == SM_getSeed(policy, SM, id)
                    IN  /\ lastCall'.err = g.err
                        /\ lastCall'.ret = g.ret
                        /\ g.err = "none" /\ isSeedValid(g.ret)
                             => SeedersInvokedAsIn(applySeed(g.sm, id, g.ret))
    ]_vars

EventCallbacks == {"preProcessEvent", "preModule"}

\* C34: the per-event cache is fresh: the pre-event callback clears it, so
\* that after it the cache holds seeds of the new event only; an entry made
\* during an event is kept until the event ends; and every seed delivered to
\* an engine by the callbacks of event e is the seed computed from the data
\* of e, which is the one the cache holds, never one of an earlier event.
C34_EventSeedsAreFresh ==
  /\ lastCall.op = "preProcessEvent"
       => \A id \in Ids :
            knownEventSeeds[id] # NoSeed
              => knownEventSeeds[id] = EventSeed(id, curEvent)
  /\ (before.fw \in {"event", "moduleEvent"}
        /\ lastCall.op # "preProcessEvent")
       => \A id \in Ids :
            before.knownEventSeeds[id] # NoSeed
              => knownEventSeeds[id] = before.knownEventSeeds[id]
  /\ lastCall.op \in EventCallbacks
       => \A id \in Ids :
            delivered[id] # NoSeed
              => /\ delivered[id] = EventSeed(id, curEvent)
                 /\ knownEventSeeds[id] = delivered[id]
                 /\ ~WasFrozen(id)

\* in the second event, an engine of the module about to run has been given
\* the seed of that event, which is not its seed of the first event
C34_Witness ==
  /\ lastCall.op = "preModule"
  /\ lastCall.err = "none"
  /\ nEvents = 2
  /\ \E id \in Ids :
       /\ ~isGlobal(id)
       /\ isSeedValid(delivered[id])
       /\ delivered[id] = EventSeed(id, curEvent)
       /\ knownEventSeeds[id] = delivered[id]
       /\ delivered[id] # EventSeed(id, EventData(1, TRUE))

\* the hash of the event and the engine, coerced to a valid seed
EventHash(id, info) == EventTimestamp_v1(id, info).seed

\* C35: the event seed of perEvent is (h + offset) modulo the range of the
\* seed type, h being the hash coerced to a valid seed (never InvalidSeed).
\* With offset 0 the event seed is never InvalidSeed; with another offset
\* the sum is not made valid again, and when it is InvalidSeed reseedEvent
\* invokes no seeder and the current seed of the engine keeps its value.
C35_EventSeedIsHashPlusOffset ==
  [][ \A id \in Ids :
        (lastCall'.id = id /\ lastCall'.err = "none")
          => LET h == EventHash(id, curEvent')
                 fresh == knownEventSeeds[id] = NoSeed
             IN  /\ lastCall'.op \in {"getEventSeed", "reseedEvent"}
                   => /\ isSeedValid(h)
                      /\ fresh
                           => lastCall'.ret = (h + policy.offset) % SeedModulus
                      /\ policy.offset = 0 => isSeedValid(lastCall'.ret)
                 /\ (lastCall'.op = "reseedEvent"
                       /\ ~isSeedValid(lastCall'.ret))
                   => /\ NoSeederInvoked
                      /\ getSeedFromMap(currentSeeds', id)
                           = getSeedFromMap(currentSeeds, id)
                      /\ currentSeeds[id] # NoSeed
                           => currentSeeds'[id] = currentSeeds[id]
    ]_vars

\* with an offset, reseedEvent has found the event seed InvalidSeed for an
\* engine with a seeder and a valid current seed, which it has kept
C35_Witness ==
  /\ lastCall.op = "reseedEvent"
  /\ lastCall.err = "none"
  /\ lastCall.ret = InvalidSeed
  /\ policy.offset # 0
  /\ hasSeeder(SM, lastCall.id)
  /\ knownEventSeeds[lastCall.id] = InvalidSeed
  /\ isSeedValid(getSeedFromMap(currentSeeds, lastCall.id))
  /\ delivered = NoDelivery

\* the errors of the kind logic error: art::errors::LogicError, and
\* std::out_of_range, which is a std::logic_error
LogicErrors == {"LogicError", "out_of_range"}

\* C36: freezeSeed(id, seed) on an id without engine record fails with a
\* logic error and leaves the engine table and the caches unchanged; on a
\* registered id it sets the frozen flag and writes seed to configured[id]
\* and current[id], so that getCurrentSeed(id) is seed after it.
C36_FreezeSeedNeedsEngine ==
  [][ \A id \in Ids :
        (lastCall'.op = "freezeSeed" /\ lastCall'.id = id)
          => IF ~engineData[id].present
               THEN /\ lastCall'.err \in LogicErrors
                    /\ engineData' = engineData
                    /\ configuredSeeds' = configuredSeeds
                    /\ currentSeeds' = currentSeeds
                    /\ knownEventSeeds' = knownEventSeeds
               ELSE /\ lastCall'.err = "none"
                    /\ Frozen(id)'
                    /\ engineData'[id].seeder = engineData[id].seeder
                    /\ configuredSeeds'[id] = lastCall'.seed
                    /\ currentSeeds'[id] = lastCall'.seed
                    /\ getSeedFromMap(currentSeeds', id) = lastCall'.seed
                    /\ \A other \in Ids \ {id} :
                         /\ engineData'[other] = engineData[other]
                         /\ configuredSeeds'[other] = configuredSeeds[other]
                         /\ currentSeeds'[other] = currentSeeds[other]
    ]_vars

\* freezeSeed has failed for an engine that has no record, while another
\* engine is registered
C36_Witness ==
  /\ lastCall.op = "freezeSeed"
  /\ lastCall.err \in LogicErrors
  /\ ~engineData[lastCall.id].present
  /\ configuredSeeds[lastCall.id] = NoSeed
  /\ currentSeeds[lastCall.id] = NoSeed
  /\ \E other \in Ids : engineData[other].present

\* C37: registration is atomic on failure: when registerEngine,
\* declareEngine, registerAndSeedEngine or a getSeed that declares the
\* engine fails, an engine that was not in the engine table before the call
\* is not in it after the call, so that the registration can be tried again.
C37_FailedRegistrationLeavesNoEngine ==
  [][ \A id \in Ids :
        (/\ lastCall'.op \in RegistrationOps \cup SeedQueries
         /\ lastCall'.id = id
         /\ lastCall'.err # "none"
         /\ ~hasEngine(SM, id))
          => ~hasEngine(SM', id)
    ]_vars

\* C38: no engine is ever seeded with InvalidSeed: the seed an engine holds,
\* and every seed given to an engine by a call, is a valid seed.
C38_NoEngineSeededInvalid ==
  \A id \in Ids :
    /\ engineSeed[id] # NoSeed => isSeedValid(engineSeed[id])
    /\ delivered[id] # NoSeed => isSeedValid(delivered[id])

SummaryError(conf, cur, id) ==
  /\ cur[id] # NoSeed
  /\ isSeedValid(getSeedFromMap(conf, id))
  /\ getSeedFromMap(conf, id) # cur[id]

====
